---- MODULE Spec2Model ----
(***************************************************************************)
(* The AR viewer of the memory-aid application: the matcher               *)
(* (compareFaces, findBestMatch), the session initialisation              *)
(* (initializeAR, startCamera), the detection loop (startFaceRecognition, *)
(* recognize), Stop Video and the effect cleanup of ARViewer.tsx.         *)
(*                                                                         *)
(* Every await of the source is a point where a handler is suspended: an  *)
(* action of this module is the code that runs between two awaits.        *)
(***************************************************************************)
EXTENDS Integers, Sequences, FiniteSets, TLC

(***************************************************************************)
(* Bounds of the model.                                                    *)
(***************************************************************************)
\* How many times the effect of ARViewer may run on the same refs.
MaxMounts == 2

\* How many candidates a call of findBestMatch is given at most.
MaxCandidates == 3

\* How many people are added to the store at most.
MaxPeople == 2

\* How many conversations are added to the store at most.
MaxNotes == 2

(***************************************************************************)
(* Values.                                                                 *)
(*                                                                         *)
(* An embedding is a sequence of coordinates in units of 1/8: such values *)
(* and their differences, squares and sums are exact in Float32Array and  *)
(* in double arithmetic.  A similarity is kept in thousandths, rounded    *)
(* down: comparisons between similarities, the comparison with the        *)
(* threshold 0.4 and Math.round(similarity * 100) are all decided exactly *)
(* on that value for the embeddings of this model.                        *)
(***************************************************************************)
Null == 0

Max(a, b) == IF a >= b THEN a ELSE b

Min(a, b) == IF a <= b THEN a ELSE b

\* Greatest r with r * r <= n.
FloorSqrt(n) == CHOOSE r \in 0..n : r * r <= n /\ (r + 1) * (r + 1) > n

RECURSIVE SumSq(_, _, _)
SumSq(d1, d2, i) ==
    IF i > Len(d1) THEN 0
    ELSE (d1[i] - d2[i]) * (d1[i] - d2[i]) + SumSq(d1, d2, i + 1)

\* faceapi.euclideanDistance, squared, in units of 1/64.
SqDistance(d1, d2) == SumSq(d1, d2, 1)

\* The distance sqrt(sq)/8 in thousandths, rounded up: the least k with
\* k >= 125 * sqrt(sq), that is k * k >= 15625 * sq.
DistanceMilli(sq) ==
    LET r == FloorSqrt(sq)
    IN  CHOOSE k \in (125 * r)..(125 * (r + 1)) :
            k * k >= 15625 * sq /\ (k = 0 \/ (k - 1) * (k - 1) < 15625 * sq)

\* A similarity that is not clamped at zero.
compareFacesUnclamped(descriptor1, descriptor2) ==
    1000 - DistanceMilli(SqDistance(descriptor1, descriptor2))

\* similarity = Math.max(0, 1 - distance), in thousandths rounded down.
compareFaces(descriptor1, descriptor2) ==
    Max(0, 1000 - DistanceMilli(SqDistance(descriptor1, descriptor2)))

\* const MATCH_THRESHOLD = 0.4, in thousandths.
MATCH_THRESHOLD == 400

NoMatch == [personId |-> -1, similarity |-> 0]

\* faceapi.euclideanDistance throws when its two arrays differ in length.
DimensionMismatch(descriptor1, descriptor2) == Len(descriptor1) # Len(descriptor2)

\* A loop body in which the latest of several equal candidates wins.
ScanStepTiesLast(detectedDescriptor, person, bestMatch) ==
    LET similarity == compareFaces(detectedDescriptor, person.descriptor)
    IN  IF similarity >= bestMatch.similarity
        THEN [personId |-> person.id, similarity |-> similarity]
        ELSE bestMatch

\* A loop body that keeps the latest candidate scored.
ScanStepLatest(detectedDescriptor, person, bestMatch) ==
    [personId |-> person.id,
     similarity |-> compareFaces(detectedDescriptor, person.descriptor)]

\* The body of the for loop of findBestMatch for one candidate.
ScanStep(detectedDescriptor, person, bestMatch) ==
    LET similarity == compareFaces(detectedDescriptor, person.descriptor)
    IN  IF similarity > bestMatch.similarity
        THEN [personId |-> person.id, similarity |-> similarity]
        ELSE bestMatch

\* The for loop of findBestMatch from candidate i on, bestMatch being the best so far.
RECURSIVE ScanPeople(_, _, _, _)
ScanPeople(detectedDescriptor, storedPeople, i, bestMatch) ==
    IF i > Len(storedPeople) THEN bestMatch
    ELSE ScanPeople(detectedDescriptor, storedPeople, i + 1,
                    ScanStep(detectedDescriptor, storedPeople[i], bestMatch))

\* An early return that hands out the placeholder.
EmptyResultPlaceholder == <<NoMatch>>

\* if (storedPeople.length === 0) return null: what is returned.
EmptyResult == <<>>

\* A final test that returns every candidate scored above zero.
BestAboveZero(bestMatch) ==
    IF bestMatch.similarity > 0 THEN <<bestMatch>> ELSE <<>>

\* if (bestMatch.similarity >= MATCH_THRESHOLD) return bestMatch; return null
BestOrNull(bestMatch) ==
    IF bestMatch.similarity >= MATCH_THRESHOLD THEN <<bestMatch>> ELSE <<>>

\* Whether findBestMatch throws: a candidate's descriptor has another length
\* than the detected one.
MatcherThrows(detectedDescriptor, storedPeople) ==
    \E i \in 1..Len(storedPeople) :
        DimensionMismatch(detectedDescriptor, storedPeople[i].descriptor)

\* The result is a sequence: <<>> is null, <<m>> the match m.  It is defined
\* where findBestMatch does not throw.
findBestMatch(detectedDescriptor, storedPeople) ==
    IF Len(storedPeople) = 0 THEN EmptyResult
    ELSE BestOrNull(ScanPeople(detectedDescriptor, storedPeople, 1, NoMatch))

\* Math.round(match.similarity * 100)
RoundPercent(similarity) == (similarity + 5) \div 10

RecognizedStatus(similarity) == "Recognized (" \o ToString(RoundPercent(similarity)) \o "%)"

(***************************************************************************)
(* The store (IndexedDB through Dexie): people in primary-key order, and  *)
(* conversations in date order, the latest last.                           *)
(***************************************************************************)
Anna == [id |-> 1, faceDescriptor |-> <<4, 4>>]

Ben == [id |-> 2, faceDescriptor |-> <<4, 8>>]

\* A person saved from a photo in which no face was found.
Carl == [id |-> 3]

Rosters == { <<>>, <<Anna, Ben, Carl>> }

\* Anna has two conversations, Ben has none.
ConversationLogs ==
    { <<[personId |-> 1, summary |-> "Talked about the garden"],
        [personId |-> 1, summary |-> "Planned a visit"]>> }

\* What the detector may report for a frame: null, or a face box with or
\* without a descriptor.  position.x and position.y are percentages.
Positions == { [x |-> 60, y |-> 3] }

\* Query embeddings: Anna exactly, near Ben, and outside the threshold of both.
QueryDescriptors == { <<4, 4>>, <<5, 8>>, <<4, 13>> }

DetectionResults ==
    { <<>> } \cup
    { <<[position |-> p]>> : p \in Positions } \cup
    { <<[position |-> p, descriptor |-> d]>> : p \in Positions, d \in QueryDescriptors }

\* A person whose stored embedding has another length than the detector's.
Dana == [id |-> 4, faceDescriptor |-> <<4, 4, 4>>]

\* The stores of Rosters, and one that holds such a person.
StoredRosters == Rosters \cup { <<Anna, Dana>> }

\* Face boxes at the right edge and at the top of the frame, one that the
\* offset brings exactly to both limits, and one inside.
FramePositions ==
    { [x |-> 96, y |-> 2], [x |-> 77, y |-> 15], [x |-> 40, y |-> 50] }

FrameResults ==
    { <<>> } \cup
    { <<[position |-> p]>> : p \in FramePositions } \cup
    { <<[position |-> p, descriptor |-> d]>> : p \in FramePositions, d \in QueryDescriptors }

(***************************************************************************)
(* The inputs of a call of findBestMatch on its own: the descriptor lookup *)
(* is built from people with distinct ids.  Seen from <<4, 4>> the         *)
(* candidates score 1, 0.875 twice, 0.441, 0.375 and 0; seen from <<4, 5>> *)
(* they score 0.875, 0.823, 1, 0.484, 0.5 and 0 (at a distance above 1).   *)
(* The last candidate has an embedding of another length.                  *)
(***************************************************************************)
Candidates ==
    { [id |-> 1, descriptor |-> <<4, 4>>],
      [id |-> 2, descriptor |-> <<5, 4>>],
      [id |-> 3, descriptor |-> <<4, 5>>],
      [id |-> 4, descriptor |-> <<8, 6>>],
      [id |-> 5, descriptor |-> <<4, 9>>],
      [id |-> 6, descriptor |-> <<12, 4>>],
      [id |-> 7, descriptor |-> <<4, 4, 4>>] }

\* The sequences of at most MaxCandidates distinct candidates.
CandidateLists ==
    UNION { { people \in [1..n -> Candidates] :
                  \A i, j \in 1..n : people[i] = people[j] => i = j }
            : n \in 0..MaxCandidates }

CallDescriptors == { <<4, 4>>, <<4, 5>>, <<4, 4, 4>> }

(***************************************************************************)
(* The inputs of the Add Person form: the photos the user can choose, the *)
(* embedding the extractor finds in each (the second shows no face), and  *)
(* what the name and relation fields can hold.                             *)
(***************************************************************************)
Photos == {1, 2}

FaceIn(photo) == IF photo = 1 THEN << <<4, 13>> >> ELSE <<>>

FormInputs ==
    { [name |-> "", relation |-> ""],
      [name |-> "Eve", relation |-> ""],
      [name |-> "Eve", relation |-> "Friend"] }

(***************************************************************************)
(* The state.                                                              *)
(***************************************************************************)
VARIABLES
    \* the store
    dbPeople,             \* db.people, in primary-key order
    dbConversations,      \* db.conversations, in date order
    \* faceDetection module
    modelsLoaded,         \* let modelsLoaded
    \* the effect of ARViewer: run g has its own isMounted object
    gen,                  \* the number of runs of the effect so far
    isMounted,            \* isMounted.current of each run
    initPc,               \* where initializeAR of each run is suspended
    \* the video element and the camera
    videoRef,             \* "video" while the element is attached, else "null"
    srcObject,            \* the stream attached to the element, or Null
    stream,               \* each stream acquired: "none", "live" or "stopped"
    \* React state of ARViewer
    detectedPerson,       \* <<>> is null
    cameraActive,
    isTracking,
    recognitionStatus,
    \* refs of ARViewer
    targetPosRef,
    animationRef,         \* the handle requestAnimationFrame returned last: the
                          \* run whose loop asked for the frame, or NoHandle
    frames,               \* the runs whose loop has a frame callback pending
    smoothPosRef,
    overlayPos,
    isRayBanMode,
    \* history of the animation: the frames run, and where it started from
    steps,
    startPos,
    lastMatchedIdRef,
    recognitionLoopRef,
    modelsReadyRef,
    storedDescriptorsRef,
    allPeopleRef,
    \* the detection loop started by each run of the effect
    loopPc,               \* "none", "timer", "detecting", "lookup", "exited", "crashed"
    pending,              \* the match a cycle suspended in the lookup holds
    \* history: what the latest poll cycle of the session found
    lastCycle,
    \* a call of findBestMatch
    matcherPc,            \* "idle", "called", "scanning", "returned", "threw"
    callDescriptor,       \* its argument detectedDescriptor
    callPeople,           \* its argument storedPeople
    scanIndex,            \* the candidate the for loop is at
    bestSoFar,            \* let bestMatch
    scores,               \* history: the similarities computed, in order
    matchResult,          \* what the call returned: <<>> is null
    \* the store's key generator and the calls of its operations in flight
    nextPersonId,         \* the key db.people.add gives the next person
    deletePc,             \* deletePerson(id): "idle", "conversations", "person", "done"
    convoPc,              \* handleAddConversation for person id: "idle", "summarizing", "adding"
    peopleAdded,          \* history: how many people were added
    notes,                \* history: how many conversations were added
    \* React state of the People page (the Add Person form)
    formData,
    photoFile,            \* NoPhoto is null
    faceDescriptor,       \* <<>> is null
    faceStatus,
    saving,
    extractionPc,         \* the handlePhotoChange chain of each photo
    submitted,            \* the arguments of the addPerson call in flight
    yielded,              \* history: the embeddings the extractions gave
    \* a call of summarizeConversation
    apiKey,               \* whether GEMINI_API_KEY is set
    sumPc,                \* "idle", "called", "fetch", "json", "returned", "threw"
    sumText,              \* its argument text
    sumOutcome,           \* history: what the remote call did
    sumResult             \* the string it returned

storeVars == <<dbPeople, dbConversations>>

effectVars == <<gen, isMounted, initPc>>

cameraVars == <<videoRef, srcObject, stream>>

uiVars == <<detectedPerson, cameraActive, isTracking, recognitionStatus>>

rosterVars == <<storedDescriptorsRef, allPeopleRef>>

loopVars == <<loopPc, pending>>

animationVars == <<animationRef, frames>>

overlayVars == <<smoothPosRef, overlayPos, isRayBanMode>>

stepVars == <<steps, startPos>>

storeOpVars == <<nextPersonId, deletePc, convoPc, peopleAdded, notes>>

formVars == <<formData, photoFile, faceDescriptor, faceStatus, saving, extractionPc,
              submitted, yielded>>

summarizerVars == <<apiKey, sumPc, sumText, sumOutcome, sumResult>>

pageVars == <<storeOpVars, formVars, summarizerVars>>

matcherVars == <<matcherPc, callDescriptor, callPeople, scanIndex, bestSoFar, scores,
                 matchResult>>

\* The state of ARViewer and of the faceDetection module.
viewerVars ==
    <<modelsLoaded, effectVars, cameraVars, uiVars, targetPosRef, animationVars,
      lastMatchedIdRef, recognitionLoopRef, modelsReadyRef, rosterVars, loopVars, lastCycle,
      overlayVars, stepVars>>

sessionVars == <<storeVars, viewerVars, pageVars>>

vars == <<storeVars, modelsLoaded, effectVars, cameraVars, uiVars, targetPosRef,
          animationVars, lastMatchedIdRef, recognitionLoopRef, modelsReadyRef,
          rosterVars, loopVars, lastCycle, matcherVars, overlayVars, stepVars, pageVars>>

Gens == 1..MaxMounts

\* useRef<number | undefined>(undefined): no handle yet.
NoHandle == 0

NoCycle == [branch |-> "none", personId |-> Null, face |-> "none", position |-> <<>>]

\* A state setter of a component that is no longer rendered changes nothing.
SetState(old, new) == IF videoRef = "video" THEN new ELSE old

\* No call of findBestMatch on its own is under way.
MatcherIdle ==
    /\ matcherPc = "idle"
    /\ callDescriptor = <<>>
    /\ callPeople = <<>>
    /\ scanIndex = 0
    /\ bestSoFar = NoMatch
    /\ scores = <<>>
    /\ matchResult = <<>>

\* The key of the next person: one more than the largest key given so far.
RECURSIVE LargestId(_)
LargestId(people) ==
    IF people = <<>> THEN 0 ELSE Max(Head(people).id, LargestId(Tail(people)))

\* The keys a person can have in this model.
PersonIds == 1..(Dana.id + MaxPeople)

\* input type="file" with no file chosen.
NoPhoto == 0

\* No operation of the store is in flight.
StoreOpsIdle ==
    /\ nextPersonId = LargestId(dbPeople) + 1
    /\ deletePc = [id \in PersonIds |-> "idle"]
    /\ convoPc = [id \in PersonIds |-> "idle"]
    /\ peopleAdded = 0
    /\ notes = 0

\* The Add Person form as useState initializes it.
FormClosed ==
    /\ formData = [name |-> "", relation |-> ""]
    /\ photoFile = NoPhoto
    /\ faceDescriptor = <<>>
    /\ faceStatus = "none"
    /\ saving = FALSE
    /\ extractionPc = [photo \in Photos |-> "none"]
    /\ submitted = <<>>
    /\ yielded = {}

\* No call of summarizeConversation is under way.
SummarizerIdle ==
    /\ apiKey = FALSE
    /\ sumPc = "idle"
    /\ sumText = ""
    /\ sumOutcome = [kind |-> "none"]
    /\ sumResult = ""

PagesIdle == StoreOpsIdle /\ FormClosed /\ SummarizerIdle

\* The component after its first render, before any effect has run.
SessionStart ==
    /\ dbConversations \in ConversationLogs
    /\ modelsLoaded = FALSE
    /\ gen = 1
    /\ isMounted = [g \in Gens |-> g = 1]
    /\ initPc = [g \in Gens |-> IF g = 1 THEN "getAllPeople" ELSE "idle"]
    /\ videoRef = "video"
    /\ srcObject = Null
    /\ stream = [g \in Gens |-> "none"]
    /\ detectedPerson = <<>>
    /\ cameraActive = FALSE
    /\ isTracking = FALSE
    /\ recognitionStatus = "Loading AI..."
    /\ targetPosRef = [x |-> 75, y |-> 30]
    /\ smoothPosRef = [x |-> 75, y |-> 30]
    /\ overlayPos = [x |-> 75, y |-> 30]
    /\ steps = 0
    /\ startPos = [x |-> 75, y |-> 30]
    /\ animationRef = NoHandle
    /\ frames = {}
    /\ isRayBanMode = FALSE
    /\ lastMatchedIdRef = Null
    /\ recognitionLoopRef = FALSE
    /\ modelsReadyRef = FALSE
    /\ storedDescriptorsRef = <<>>
    /\ allPeopleRef = <<>>
    /\ loopPc = [g \in Gens |-> "none"]
    /\ pending = [g \in Gens |-> NoMatch]
    /\ lastCycle = NoCycle

Init ==
    /\ dbPeople \in Rosters
    /\ SessionStart
    /\ MatcherIdle
    /\ PagesIdle

(***************************************************************************)
(* initializeAR and startCamera.                                           *)
(***************************************************************************)
\* The descriptor lookup built from the people loaded.
RECURSIVE BuildDescriptors(_)
BuildDescriptors(people) ==
    IF people = <<>> THEN <<>>
    ELSE LET person == Head(people)
         IN  (IF person.id # 0 /\ "faceDescriptor" \in DOMAIN person
              THEN <<[id |-> person.id, descriptor |-> person.faceDescriptor]>>
              ELSE <<>>) \o BuildDescriptors(Tail(people))

\* A detector call that does not wait for the models.
RecognizeEntryNoBackOff(running) ==
    IF ~running THEN "exited"
    ELSE IF videoRef = "null" THEN "timer"
    ELSE "detecting"

\* recognize() up to its first await: the position it is left in.
RecognizeEntry(running) ==
    IF ~running THEN "exited"
    ELSE IF videoRef = "null" \/ ~modelsReadyRef THEN "timer"
    ELSE "detecting"

\* startFaceRecognition() called by run g: whether it starts a loop.
StartsLoop(running) == ~running

\* An initialization that starts the animation loop without looking at
\* isMounted.
StartAnimationAlways(g) ==
    animationRef' = g /\ frames' = frames \cup {g}

\* if (isMounted.current) startAnimationLoop(), the last statement of
\* initializeAR's try block.
StartAnimationIfMounted(g) ==
    IF isMounted[g]
    THEN animationRef' = g /\ frames' = frames \cup {g}
    ELSE UNCHANGED animationVars

\* An initializeAR that goes on to the models without the people it asked
\* for: the roster and the descriptor lookup stay as they were.
PeopleLoadedUnawaited(g) ==
    /\ initPc[g] = "getAllPeople"
    /\ IF ~isMounted[g]
       THEN /\ initPc' = [initPc EXCEPT ![g] = "done"]
            /\ UNCHANGED recognitionStatus
       ELSE /\ recognitionStatus' = SetState(recognitionStatus, "Loading AI models...")
            /\ initPc' = [initPc EXCEPT ![g] = "loadModels"]
    /\ UNCHANGED <<matcherVars, pageVars, overlayVars, stepVars, storeVars, modelsLoaded, gen, isMounted, cameraVars, detectedPerson,
                   cameraActive, isTracking, targetPosRef, animationVars, lastMatchedIdRef,
                   recognitionLoopRef, modelsReadyRef, rosterVars, loopVars, lastCycle>>

\* getAllPeople() resolves.
PeopleLoaded(g) ==
    /\ initPc[g] = "getAllPeople"
    /\ IF ~isMounted[g]
       THEN /\ initPc' = [initPc EXCEPT ![g] = "done"]
            /\ UNCHANGED <<rosterVars, recognitionStatus>>
       ELSE /\ allPeopleRef' = dbPeople
            /\ storedDescriptorsRef' = BuildDescriptors(dbPeople)
            /\ recognitionStatus' = SetState(recognitionStatus, "Loading AI models...")
            /\ initPc' = [initPc EXCEPT ![g] = "loadModels"]
    /\ UNCHANGED <<matcherVars, pageVars, overlayVars, stepVars, storeVars, modelsLoaded, gen, isMounted, cameraVars, detectedPerson,
                   cameraActive, isTracking, targetPosRef, animationVars, lastMatchedIdRef,
                   recognitionLoopRef, modelsReadyRef, loopVars, lastCycle>>

\* getAllPeople() rejects: initializeAR awaits it outside its try block.
PeopleLoadFailed(g) ==
    /\ initPc[g] = "getAllPeople"
    /\ initPc' = [initPc EXCEPT ![g] = "done"]
    /\ UNCHANGED <<matcherVars, pageVars, overlayVars, stepVars, storeVars, modelsLoaded, gen, isMounted, cameraVars, uiVars, targetPosRef,
                   animationVars, lastMatchedIdRef, recognitionLoopRef, modelsReadyRef,
                   rosterVars, loopVars, lastCycle>>

\* loadFaceDetectionModels() resolves with loaded; it never rejects, and
\* resolves with true once the models are loaded.
ModelsLoaded(g, loaded) ==
    /\ initPc[g] = "loadModels"
    /\ modelsLoaded => loaded
    /\ modelsLoaded' = loaded
    /\ IF ~isMounted[g]
       THEN /\ initPc' = [initPc EXCEPT ![g] = "done"]
            /\ UNCHANGED <<modelsReadyRef, recognitionStatus>>
       ELSE /\ modelsReadyRef' = loaded
            /\ recognitionStatus' =
                   SetState(recognitionStatus,
                            IF loaded THEN "Scanning..." ELSE "AI failed to load")
            /\ initPc' = [initPc EXCEPT ![g] = "getUserMedia"]
    /\ UNCHANGED <<matcherVars, pageVars, overlayVars, stepVars, storeVars, gen, isMounted, cameraVars, detectedPerson, cameraActive,
                   isTracking, targetPosRef, animationVars, lastMatchedIdRef,
                   recognitionLoopRef, rosterVars, loopVars, lastCycle>>

\* getUserMedia() resolves with a stream.
StreamAcquired(g) ==
    /\ initPc[g] = "getUserMedia"
    /\ stream' = [stream EXCEPT ![g] = "live"]
    /\ IF videoRef = "video" /\ isMounted[g]
       THEN /\ srcObject' = g
            /\ initPc' = [initPc EXCEPT ![g] = "play"]
            /\ UNCHANGED animationVars
       ELSE /\ StartAnimationIfMounted(g)
            /\ initPc' = [initPc EXCEPT ![g] = "done"]
            /\ UNCHANGED srcObject
    /\ UNCHANGED <<matcherVars, pageVars, overlayVars, stepVars, storeVars, modelsLoaded, gen, isMounted, videoRef, uiVars, targetPosRef,
                   lastMatchedIdRef, recognitionLoopRef, modelsReadyRef, rosterVars,
                   loopVars, lastCycle>>

\* The status the catch block of startCamera sets for an error of that name.
CameraErrorStatus(name) ==
    IF name \in {"NotAllowedError", "NotFoundError"}
    THEN "Camera access denied" ELSE "Camera error"

\* The catch block of startCamera, then the rest of initializeAR.
CameraFailed(g, name) ==
    /\ recognitionStatus' =
           IF ~isMounted[g] THEN recognitionStatus
           ELSE SetState(recognitionStatus, CameraErrorStatus(name))
    /\ StartAnimationIfMounted(g)
    /\ initPc' = [initPc EXCEPT ![g] = "done"]

\* getUserMedia() rejects.
StreamRefused(g, name) ==
    /\ initPc[g] = "getUserMedia"
    /\ CameraFailed(g, name)
    /\ UNCHANGED <<matcherVars, pageVars, overlayVars, stepVars, storeVars, modelsLoaded, gen, isMounted, cameraVars, detectedPerson,
                   cameraActive, isTracking, targetPosRef, lastMatchedIdRef,
                   recognitionLoopRef, modelsReadyRef, rosterVars, loopVars, lastCycle>>

\* video.play() resolves: setCameraActive(true), startFaceRecognition().
PlayResolved(g) ==
    /\ initPc[g] = "play"
    /\ cameraActive' = SetState(cameraActive, TRUE)
    /\ IF StartsLoop(recognitionLoopRef)
       THEN /\ recognitionLoopRef' = TRUE
            /\ loopPc' = [loopPc EXCEPT ![g] = RecognizeEntry(TRUE)]
       ELSE UNCHANGED <<recognitionLoopRef, loopPc>>
    /\ StartAnimationIfMounted(g)
    /\ initPc' = [initPc EXCEPT ![g] = "done"]
    /\ UNCHANGED <<matcherVars, pageVars, overlayVars, stepVars, storeVars, modelsLoaded, gen, isMounted, cameraVars, detectedPerson,
                   isTracking, recognitionStatus, targetPosRef, lastMatchedIdRef,
                   modelsReadyRef, rosterVars, pending, lastCycle>>

\* video.play() rejects: an AbortError returns from startCamera, any other
\* error goes to its catch block.
PlayRejected(g, name) ==
    /\ initPc[g] = "play"
    /\ IF name = "AbortError"
       THEN /\ StartAnimationIfMounted(g)
            /\ initPc' = [initPc EXCEPT ![g] = "done"]
            /\ UNCHANGED recognitionStatus
       ELSE CameraFailed(g, name)
    /\ UNCHANGED <<matcherVars, pageVars, overlayVars, stepVars, storeVars, modelsLoaded, gen, isMounted, cameraVars, detectedPerson,
                   cameraActive, isTracking, targetPosRef, lastMatchedIdRef,
                   recognitionLoopRef, modelsReadyRef, rosterVars, loopVars, lastCycle>>

ErrorNames == {"AbortError", "NotAllowedError", "NotFoundError", "NotReadableError"}

(***************************************************************************)
(* startFaceRecognition: one cycle of recognize().                         *)
(*                                                                         *)
(* The code of a cycle between the detector's answer and the next await   *)
(* (or the end of the cycle) is a function of the answer and of the       *)
(* session state it reads, here the record View.                           *)
(***************************************************************************)
View ==
    [ lastMatchedId     |-> lastMatchedIdRef,
      detectedPerson    |-> detectedPerson,
      isTracking        |-> isTracking,
      recognitionStatus |-> recognitionStatus,
      targetPos         |-> targetPosRef ]

\* A target that follows the face without the limits.
TargetForUnclamped(position) == [x |-> position.x + 8, y |-> position.y - 5]

\* The overlay target for a face at position.
TargetFor(position) ==
    [x |-> Min(position.x + 8, 85), y |-> Max(position.y - 5, 10)]

\* if (result) { targetPosRef.current = ...; setIsTracking(true); ...
FaceBranch(v, position) ==
    [v EXCEPT !.targetPos = TargetFor(position), !.isTracking = TRUE]

\* A no-face branch that drops the last match, as the no-match branch does.
NoFaceBranchClearing(v) ==
    [v EXCEPT !.isTracking = FALSE, !.recognitionStatus = "Scanning...",
              !.lastMatchedId = Null, !.detectedPerson = <<>>]

\* } else { setIsTracking(false); setRecognitionStatus('Scanning...'); }
NoFaceBranch(v) ==
    [v EXCEPT !.isTracking = FALSE, !.recognitionStatus = "Scanning..."]

\* A cycle that takes every match for a new person.
AlwaysNewPerson(personId, lastMatchedId) == TRUE

\* if (match.personId !== lastMatchedIdRef.current)
IsNewPerson(personId, lastMatchedId) == personId # lastMatchedId

\* allPeopleRef.current.find(p => p.id === personId), as a sequence.
FindPerson(people, personId) == SelectSeq(people, LAMBDA p : p.id = personId)

\* if (match) { ... }: up to the await of the lookup.  lookup is <<match>>
\* when the cycle goes on to await getLatestConversation.
MatchBranch(v, match) ==
    IF IsNewPerson(match.personId, v.lastMatchedId)
    THEN [ view   |-> [v EXCEPT !.lastMatchedId = match.personId],
           lookup |-> IF FindPerson(allPeopleRef, match.personId) # <<>>
                      THEN <<match>> ELSE <<>> ]
    ELSE [view |-> v, lookup |-> <<>>]

\* A no-match branch that keeps the last match.
UnknownFaceKeeping(v) == [v EXCEPT !.recognitionStatus = "Unknown face"]

\* else { setRecognitionStatus('Unknown face'); if (last !== null) {...} }
UnknownFaceBranch(v) ==
    IF v.lastMatchedId # Null
    THEN [v EXCEPT !.recognitionStatus = "Unknown face",
                   !.lastMatchedId = Null, !.detectedPerson = <<>>]
    ELSE [v EXCEPT !.recognitionStatus = "Unknown face"]

\* A test that lets a detection with a descriptor go to the matcher whatever
\* the descriptor lookup holds.
CanMatchAnyRoster(face, stored) == "descriptor" \in DOMAIN face

\* if (result.descriptor && storedDescriptorsRef.current.length > 0)
CanMatch(face, stored) == "descriptor" \in DOMAIN face /\ Len(stored) > 0

\* A status that does not tell an empty descriptor lookup from a detection
\* without a descriptor.
AlwaysAnalyzing(stored) == "Analyzing face..."

\* else if (storedDescriptorsRef.current.length === 0) ... else ...: the status.
NoAttemptStatus(stored) ==
    IF Len(stored) = 0 THEN "No faces registered" ELSE "Analyzing face..."

\* The cycle from the detector's answer to its next await or its end.
\* branch names the branch taken ("new" and "same": a match with another or
\* the same person as the last one; "cleared" and "unknown": no match, with
\* or without a last one; "threw": findBestMatch threw).
RecognizeSync(result, v) ==
    IF result = <<>>
    THEN [view |-> NoFaceBranch(v), lookup |-> <<>>, branch |-> "noface", personId |-> Null]
    ELSE LET face == result[1]
             tracked == FaceBranch(v, face.position)
         IN  IF CanMatch(face, storedDescriptorsRef)
             THEN IF MatcherThrows(face.descriptor, storedDescriptorsRef)
                  THEN [ view   |-> tracked,
                         lookup |-> <<>>,
                         branch |-> "threw",
                         personId |-> Null ]
                  ELSE
                  LET match == findBestMatch(face.descriptor, storedDescriptorsRef)
                  IN  IF match # <<>>
                      THEN LET matched == MatchBranch(tracked, match[1])
                           IN  [ view   |-> matched.view,
                                 lookup |-> matched.lookup,
                                 branch |-> IF match[1].personId # v.lastMatchedId
                                            THEN "new" ELSE "same",
                                 personId |-> match[1].personId ]
                      ELSE [ view   |-> UnknownFaceBranch(tracked),
                             lookup |-> <<>>,
                             branch |-> IF v.lastMatchedId # Null
                                        THEN "cleared" ELSE "unknown",
                             personId |-> Null ]
             ELSE [ view   |-> [tracked EXCEPT !.recognitionStatus =
                                                   NoAttemptStatus(storedDescriptorsRef)],
                    lookup |-> <<>>,
                    branch |-> IF Len(storedDescriptorsRef) = 0
                               THEN "noregistered" ELSE "nodescriptor",
                    personId |-> Null ]

\* What the detector reported: no face, a face box, or a box with an embedding.
FaceKind(result) ==
    IF result = <<>> THEN "none"
    ELSE IF "descriptor" \in DOMAIN result[1] THEN "embedding" ELSE "box"

\* A cycle that reads the people from the store again.
TimerFiresReloading(g) ==
    /\ loopPc[g] = "timer"
    /\ loopPc' = [loopPc EXCEPT ![g] = RecognizeEntry(recognitionLoopRef)]
    /\ allPeopleRef' = dbPeople
    /\ storedDescriptorsRef' = BuildDescriptors(dbPeople)
    /\ UNCHANGED <<matcherVars, pageVars, overlayVars, stepVars, storeVars, modelsLoaded, effectVars, cameraVars, uiVars, targetPosRef,
                   animationVars, lastMatchedIdRef, recognitionLoopRef, modelsReadyRef,
                   pending, lastCycle>>

\* The timer of run g's loop fires: recognize() up to its first await.
TimerFires(g) ==
    /\ loopPc[g] = "timer"
    /\ loopPc' = [loopPc EXCEPT ![g] = RecognizeEntry(recognitionLoopRef)]
    /\ UNCHANGED <<matcherVars, pageVars, overlayVars, stepVars, storeVars, modelsLoaded, effectVars, cameraVars, uiVars, targetPosRef,
                   animationVars, lastMatchedIdRef, recognitionLoopRef, modelsReadyRef,
                   rosterVars, pending, lastCycle>>

\* detectFaceWithDescriptor() resolves with result (null when no face was
\* found or the detector threw): the cycle runs to its await of the
\* lookup, or to its end, where it sets the next timer; an exception thrown
\* by findBestMatch leaves recognize() before its setTimeout.
DetectReturns(g, result) ==
    /\ loopPc[g] = "detecting"
    /\ LET out == RecognizeSync(result, View)
       IN  /\ lastMatchedIdRef' = out.view.lastMatchedId
           /\ targetPosRef' = out.view.targetPos
           /\ detectedPerson' = SetState(detectedPerson, out.view.detectedPerson)
           /\ isTracking' = SetState(isTracking, out.view.isTracking)
           /\ recognitionStatus' = SetState(recognitionStatus, out.view.recognitionStatus)
           /\ IF out.lookup # <<>>
              THEN /\ loopPc' = [loopPc EXCEPT ![g] = "lookup"]
                   /\ pending' = [pending EXCEPT ![g] = out.lookup[1]]
              ELSE /\ loopPc' = [loopPc EXCEPT ![g] =
                                     IF out.branch = "threw" THEN "crashed" ELSE "timer"]
                   /\ UNCHANGED pending
           /\ lastCycle' = [ branch   |-> out.branch,
                             personId |-> out.personId,
                             face     |-> FaceKind(result),
                             position |-> IF result = <<>> THEN <<>>
                                          ELSE <<result[1].position>> ]
    /\ UNCHANGED <<matcherVars, pageVars, overlayVars, stepVars, storeVars, modelsLoaded, effectVars, cameraVars, cameraActive,
                   animationVars, recognitionLoopRef, modelsReadyRef, rosterVars>>

\* getLatestConversation(personId): the latest conversation, as a sequence.
getLatestConversation(personId) ==
    LET conversations == SelectSeq(dbConversations, LAMBDA c : c.personId = personId)
    IN  IF conversations = <<>> THEN <<>>
        ELSE <<conversations[Len(conversations)]>>

\* convo?.summary || 'No recent conversations recorded.'
LastConvo(convo) ==
    IF convo # <<>> /\ convo[1].summary # ""
    THEN convo[1].summary ELSE "No recent conversations recorded."

\* getLatestConversation() resolves: the person and the status are set,
\* and the cycle ends with the next timer.
LookupReturns(g) ==
    /\ loopPc[g] = "lookup"
    /\ detectedPerson' =
           SetState(detectedPerson,
                    <<[ id       |-> pending[g].personId,
                        lastConvo |-> LastConvo(getLatestConversation(pending[g].personId)) ]>>)
    /\ recognitionStatus' =
           SetState(recognitionStatus, RecognizedStatus(pending[g].similarity))
    /\ loopPc' = [loopPc EXCEPT ![g] = "timer"]
    /\ pending' = [pending EXCEPT ![g] = NoMatch]
    /\ UNCHANGED <<matcherVars, pageVars, overlayVars, stepVars, storeVars, modelsLoaded, effectVars, cameraVars, cameraActive, isTracking,
                   targetPosRef, animationVars, lastMatchedIdRef, recognitionLoopRef,
                   modelsReadyRef, rosterVars, lastCycle>>

\* getLatestConversation() rejects: recognize() has no try block, the
\* rejection leaves it before its setTimeout.
LookupFails(g) ==
    /\ loopPc[g] = "lookup"
    /\ loopPc' = [loopPc EXCEPT ![g] = "crashed"]
    /\ pending' = [pending EXCEPT ![g] = NoMatch]
    /\ UNCHANGED <<matcherVars, pageVars, overlayVars, stepVars, storeVars, modelsLoaded, effectVars, cameraVars, uiVars, targetPosRef,
                   animationVars, lastMatchedIdRef, recognitionLoopRef, modelsReadyRef,
                   rosterVars, lastCycle>>

(***************************************************************************)
(* Stop Video, and the cleanup of the effect.                              *)
(***************************************************************************)
\* stream.getTracks().forEach(track => track.stop()) on the element's stream.
StopTracks(streams, attached) ==
    IF attached = Null THEN streams ELSE [streams EXCEPT ![attached] = "stopped"]

\* A Stop Video button that cancels the animation frame as well.
stopVideoCancelling ==
    /\ videoRef = "video"
    /\ IF srcObject # Null
       THEN /\ stream' = StopTracks(stream, srcObject)
            /\ cameraActive' = FALSE
            /\ isTracking' = FALSE
            /\ recognitionLoopRef' = FALSE
            /\ frames' = frames \ {animationRef}
       ELSE UNCHANGED <<stream, cameraActive, isTracking, recognitionLoopRef, frames>>
    /\ UNCHANGED <<matcherVars, pageVars, overlayVars, stepVars, storeVars, modelsLoaded, effectVars, videoRef, srcObject, detectedPerson,
                   recognitionStatus, targetPosRef, animationRef, lastMatchedIdRef,
                   modelsReadyRef, rosterVars, loopVars, lastCycle>>

\* A Stop Video button that resets the recognition state as well.
stopVideoResetting ==
    /\ videoRef = "video"
    /\ IF srcObject # Null
       THEN /\ stream' = StopTracks(stream, srcObject)
            /\ cameraActive' = FALSE
            /\ isTracking' = FALSE
            /\ recognitionLoopRef' = FALSE
            /\ lastMatchedIdRef' = Null
            /\ recognitionStatus' = "Scanning..."
       ELSE UNCHANGED <<stream, cameraActive, isTracking, recognitionLoopRef,
                        lastMatchedIdRef, recognitionStatus>>
    /\ UNCHANGED <<matcherVars, pageVars, overlayVars, stepVars, storeVars, modelsLoaded, effectVars, videoRef, srcObject, detectedPerson,
                   targetPosRef, animationVars,
                   modelsReadyRef, rosterVars, loopVars, lastCycle>>

\* The Stop Video button, while the component is rendered.
stopVideo ==
    /\ videoRef = "video"
    /\ IF srcObject # Null
       THEN /\ stream' = StopTracks(stream, srcObject)
            /\ cameraActive' = FALSE
            /\ isTracking' = FALSE
            /\ recognitionLoopRef' = FALSE
       ELSE UNCHANGED <<stream, cameraActive, isTracking, recognitionLoopRef>>
    /\ UNCHANGED <<matcherVars, pageVars, overlayVars, stepVars, storeVars, modelsLoaded, effectVars, videoRef, srcObject, detectedPerson,
                   recognitionStatus, targetPosRef, animationVars, lastMatchedIdRef,
                   modelsReadyRef, rosterVars, loopVars, lastCycle>>

\* The cleanup function of the effect, run with videoRef.current being ref.
Cleanup(ref) ==
    /\ stream' = IF ref = "video" THEN StopTracks(stream, srcObject) ELSE stream
    /\ frames' = frames \ {animationRef}
    /\ UNCHANGED animationRef
    /\ recognitionLoopRef' = FALSE

\* The component is unmounted.  React removes the element and runs the
\* cleanup; whether the ref is already detached when the cleanup reads it
\* depends on the React version (ref is what the cleanup reads).
Unmount(ref) ==
    /\ isMounted[gen]
    /\ isMounted' = [isMounted EXCEPT ![gen] = FALSE]
    /\ Cleanup(ref)
    /\ videoRef' = "null"
    /\ UNCHANGED <<matcherVars, pageVars, overlayVars, stepVars, storeVars, modelsLoaded, gen, initPc, srcObject, uiVars, targetPosRef,
                   lastMatchedIdRef, modelsReadyRef, rosterVars, loopVars, lastCycle>>

\* The effect is run again on the same component (StrictMode's second run
\* of the effect, Fast Refresh): the cleanup, then initializeAR with a new
\* isMounted object; state and refs are kept.
Refresh ==
    /\ isMounted[gen]
    /\ gen < MaxMounts
    /\ Cleanup(videoRef)
    /\ gen' = gen + 1
    /\ isMounted' = [isMounted EXCEPT ![gen] = FALSE, ![gen + 1] = TRUE]
    /\ initPc' = [initPc EXCEPT ![gen + 1] = "getAllPeople"]
    /\ UNCHANGED <<matcherVars, pageVars, overlayVars, stepVars, storeVars, modelsLoaded, videoRef, srcObject, uiVars, targetPosRef,
                   lastMatchedIdRef, modelsReadyRef, rosterVars, loopVars, lastCycle>>

(***************************************************************************)
(* startAnimationLoop: the frame callback, and the Ray-Ban mode button.    *)
(*                                                                         *)
(* A position is a pair of fixed-point numbers: where the sessions below  *)
(* carry positions in whole percents, the animation on its own carries    *)
(* them in millionths of a percent.                                        *)
(***************************************************************************)
\* n / d rounded to the nearest integer (d > 0).
RoundDiv(n, d) ==
    IF n >= 0 THEN (2 * n + d) \div (2 * d) ELSE -((2 * (-n) + d) \div (2 * d))

\* The factor 0.12 of animate, in hundredths.
SmoothingPercent == 12

\* A step of 1.12 times the distance, which passes the target.
SmoothTowardsPast(smoothed, target) ==
    smoothed + RoundDiv((target - smoothed) * (100 + SmoothingPercent), 100)

\* A step that puts the overlay on the target at once.
SmoothTowardsAtOnce(smoothed, target) == target

\* A step with the smaller factor 0.10.
SmoothTowardsSlowly(smoothed, target) ==
    smoothed + RoundDiv((target - smoothed) * 10, 100)

\* smoothPosRef.current.x += (targetPosRef.current.x - smoothPosRef.current.x) * 0.12
SmoothTowards(smoothed, target) ==
    smoothed + RoundDiv((target - smoothed) * SmoothingPercent, 100)

\* A frame callback that moves the target onto the overlay as well.
animateSnapping(g) ==
    /\ g \in frames
    /\ smoothPosRef' = [x |-> SmoothTowards(smoothPosRef.x, targetPosRef.x),
                        y |-> SmoothTowards(smoothPosRef.y, targetPosRef.y)]
    /\ overlayPos' = SetState(overlayPos, smoothPosRef')
    /\ targetPosRef' = smoothPosRef'
    /\ animationRef' = g
    /\ frames' = frames
    /\ UNCHANGED <<matcherVars, pageVars, isRayBanMode, storeVars, modelsLoaded, effectVars, cameraVars,
                   uiVars, lastMatchedIdRef, recognitionLoopRef, modelsReadyRef,
                   rosterVars, loopVars, lastCycle>>

\* The frame callback of the loop of run g: animate().
animate(g) ==
    /\ g \in frames
    /\ smoothPosRef' = [x |-> SmoothTowards(smoothPosRef.x, targetPosRef.x),
                        y |-> SmoothTowards(smoothPosRef.y, targetPosRef.y)]
    /\ overlayPos' = SetState(overlayPos, smoothPosRef')
    /\ animationRef' = g
    /\ frames' = frames
    /\ UNCHANGED <<matcherVars, pageVars, isRayBanMode, storeVars, modelsLoaded, effectVars, cameraVars,
                   uiVars, targetPosRef, lastMatchedIdRef, recognitionLoopRef, modelsReadyRef,
                   rosterVars, loopVars, lastCycle>>

\* The Ray-Ban mode button, while the component is rendered.
toggleRayBanMode ==
    /\ videoRef = "video"
    /\ isRayBanMode' = ~isRayBanMode
    /\ UNCHANGED <<matcherVars, pageVars, smoothPosRef, overlayPos, stepVars, storeVars, modelsLoaded,
                   effectVars, cameraVars, uiVars, targetPosRef, animationVars,
                   lastMatchedIdRef, recognitionLoopRef, modelsReadyRef, rosterVars, loopVars,
                   lastCycle>>

Next ==
    \/ \E g \in Gens : PeopleLoaded(g)
    \/ \E g \in Gens : PeopleLoadFailed(g)
    \/ \E g \in Gens, loaded \in BOOLEAN : ModelsLoaded(g, loaded)
    \/ \E g \in Gens : StreamAcquired(g)
    \/ \E g \in Gens, name \in ErrorNames : StreamRefused(g, name)
    \/ \E g \in Gens : PlayResolved(g)
    \/ \E g \in Gens, name \in ErrorNames : PlayRejected(g, name)
    \/ \E g \in Gens : TimerFires(g)
    \/ \E g \in Gens, result \in DetectionResults : DetectReturns(g, result)
    \/ \E g \in Gens : LookupReturns(g)
    \/ \E g \in Gens : LookupFails(g)
    \/ stopVideo
    \/ \E ref \in {"video", "null"} : Unmount(ref)
    \/ Refresh

Spec == Init /\ [][Next]_vars

\* The same program when the cleanup of an unmount always finds the video
\* element still attached to videoRef.
NextRefKept ==
    \/ \E g \in Gens : PeopleLoaded(g)
    \/ \E g \in Gens : PeopleLoadFailed(g)
    \/ \E g \in Gens, loaded \in BOOLEAN : ModelsLoaded(g, loaded)
    \/ \E g \in Gens : StreamAcquired(g)
    \/ \E g \in Gens, name \in ErrorNames : StreamRefused(g, name)
    \/ \E g \in Gens : PlayResolved(g)
    \/ \E g \in Gens, name \in ErrorNames : PlayRejected(g, name)
    \/ \E g \in Gens : TimerFires(g)
    \/ \E g \in Gens, result \in DetectionResults : DetectReturns(g, result)
    \/ \E g \in Gens : LookupReturns(g)
    \/ \E g \in Gens : LookupFails(g)
    \/ stopVideo
    \/ Unmount("video")
    \/ Refresh

SpecRefKept == Init /\ [][NextRefKept]_vars

\* The same program where the effect runs once (no StrictMode, no Fast
\* Refresh), over the stores of StoredRosters and the frames of FrameResults.
OneMountInit ==
    /\ dbPeople \in StoredRosters
    /\ SessionStart
    /\ MatcherIdle
    /\ PagesIdle

OneMountNext ==
    \/ \E g \in Gens : PeopleLoaded(g)
    \/ \E g \in Gens : PeopleLoadFailed(g)
    \/ \E g \in Gens, loaded \in BOOLEAN : ModelsLoaded(g, loaded)
    \/ \E g \in Gens : StreamAcquired(g)
    \/ \E g \in Gens, name \in ErrorNames : StreamRefused(g, name)
    \/ \E g \in Gens : PlayResolved(g)
    \/ \E g \in Gens, name \in ErrorNames : PlayRejected(g, name)
    \/ \E g \in Gens : TimerFires(g)
    \/ \E g \in Gens, result \in FrameResults : DetectReturns(g, result)
    \/ \E g \in Gens : LookupReturns(g)
    \/ \E g \in Gens : LookupFails(g)
    \/ stopVideo
    \/ \E ref \in {"video", "null"} : Unmount(ref)

SpecOneMount == OneMountInit /\ [][OneMountNext]_vars

\* The program where the effect runs once, with its animation frames and
\* the Ray-Ban mode button.
AnimatedNext ==
    \/ \E g \in Gens : PeopleLoaded(g)
    \/ \E g \in Gens : PeopleLoadFailed(g)
    \/ \E g \in Gens, loaded \in BOOLEAN : ModelsLoaded(g, loaded)
    \/ \E g \in Gens : StreamAcquired(g)
    \/ \E g \in Gens, name \in ErrorNames : StreamRefused(g, name)
    \/ \E g \in Gens : PlayResolved(g)
    \/ \E g \in Gens, name \in ErrorNames : PlayRejected(g, name)
    \/ \E g \in Gens : TimerFires(g)
    \/ \E g \in Gens, result \in DetectionResults : DetectReturns(g, result)
    \/ \E g \in Gens : LookupReturns(g)
    \/ \E g \in Gens : LookupFails(g)
    \/ stopVideo
    \/ \E ref \in {"video", "null"} : Unmount(ref)
    \/ \E g \in Gens : animate(g) /\ UNCHANGED stepVars
    \/ toggleRayBanMode

SpecAnimated == Init /\ [][AnimatedNext]_vars

\* The program where the effect runs once, with its animation frames, over
\* the stores of StoredRosters and the frames of FrameResults, whose faces
\* put the target on and inside the limits of the overlay.
OverlayNext ==
    \/ \E g \in Gens : PeopleLoaded(g)
    \/ \E g \in Gens : PeopleLoadFailed(g)
    \/ \E g \in Gens, loaded \in BOOLEAN : ModelsLoaded(g, loaded)
    \/ \E g \in Gens : StreamAcquired(g)
    \/ \E g \in Gens, name \in ErrorNames : StreamRefused(g, name)
    \/ \E g \in Gens : PlayResolved(g)
    \/ \E g \in Gens, name \in ErrorNames : PlayRejected(g, name)
    \/ \E g \in Gens : TimerFires(g)
    \/ \E g \in Gens, result \in FrameResults : DetectReturns(g, result)
    \/ \E g \in Gens : LookupReturns(g)
    \/ \E g \in Gens : LookupFails(g)
    \/ stopVideo
    \/ \E ref \in {"video", "null"} : Unmount(ref)
    \/ \E g \in Gens : animate(g) /\ UNCHANGED stepVars

SpecOverlay == OneMountInit /\ [][OverlayNext]_vars

(***************************************************************************)
(* The animation on its own: the loop of the one run of the effect is     *)
(* running and nothing else moves, so the target is fixed.  Positions are *)
(* in millionths of a percent; every frame run is counted.                *)
(***************************************************************************)
\* One percent of the frame, in millionths of a percent.
Percent == 1000000

\* The frames a run of the animation is followed for.
MaxSteps == 60

\* Targets the poll cycle can write (x at most 85, y at least 10), and
\* positions of the overlay: the initial one and two it passes through.
AnimatorTargets ==
    { [x |-> 80 * Percent, y |-> 20 * Percent],
      [x |-> 85 * Percent, y |-> 10 * Percent],
      [x |-> 30 * Percent, y |-> 75 * Percent],
      [x |-> 68 * Percent, y |-> 30 * Percent] }

AnimatorStarts ==
    { [x |-> 75 * Percent, y |-> 30 * Percent],
      [x |-> 42 * Percent, y |-> 61 * Percent],
      [x |-> 84 * Percent, y |-> 11 * Percent] }

AnimatorInit ==
    /\ dbPeople = <<>>
    /\ dbConversations = <<>>
    /\ modelsLoaded = TRUE
    /\ gen = 1
    /\ isMounted = [g \in Gens |-> g = 1]
    /\ initPc = [g \in Gens |-> IF g = 1 THEN "done" ELSE "idle"]
    /\ videoRef = "video"
    /\ srcObject = 1
    /\ stream = [g \in Gens |-> IF g = 1 THEN "live" ELSE "none"]
    /\ detectedPerson = <<>>
    /\ cameraActive = TRUE
    /\ isTracking = TRUE
    /\ recognitionStatus = "No faces registered"
    /\ targetPosRef \in AnimatorTargets
    /\ smoothPosRef \in AnimatorStarts
    /\ overlayPos = smoothPosRef
    /\ steps = 0
    /\ startPos = smoothPosRef
    /\ animationRef = 1
    /\ frames = {1}
    /\ isRayBanMode = FALSE
    /\ lastMatchedIdRef = Null
    /\ recognitionLoopRef = TRUE
    /\ modelsReadyRef = TRUE
    /\ storedDescriptorsRef = <<>>
    /\ allPeopleRef = <<>>
    /\ loopPc = [g \in Gens |-> IF g = 1 THEN "detecting" ELSE "none"]
    /\ pending = [g \in Gens |-> NoMatch]
    /\ lastCycle = NoCycle
    /\ MatcherIdle
    /\ PagesIdle

\* The browser runs the pending frame callback.
AnimatorStep ==
    /\ steps < MaxSteps
    /\ \E g \in Gens : animate(g)
    /\ steps' = steps + 1
    /\ UNCHANGED startPos

AnimatorNext == AnimatorStep

AnimatorSpec == AnimatorInit /\ [][AnimatorNext]_vars

(***************************************************************************)
(* A call of findBestMatch on its own, one candidate of the for loop at a *)
(* time.                                                                    *)
(***************************************************************************)
MatcherInit ==
    /\ matcherPc = "called"
    /\ callDescriptor \in CallDescriptors
    /\ callPeople \in CandidateLists
    /\ scanIndex = 0
    /\ bestSoFar = NoMatch
    /\ scores = <<>>
    /\ matchResult = <<>>
    /\ dbPeople = <<>>
    /\ SessionStart
    /\ PagesIdle

\* if (storedPeople.length === 0) return null; let bestMatch = ...
MatcherEnters ==
    /\ matcherPc = "called"
    /\ IF Len(callPeople) = 0
       THEN /\ matchResult' = EmptyResult
            /\ matcherPc' = "returned"
            /\ UNCHANGED <<scanIndex, bestSoFar>>
       ELSE /\ bestSoFar' = NoMatch
            /\ scanIndex' = 1
            /\ matcherPc' = "scanning"
            /\ UNCHANGED matchResult
    /\ UNCHANGED <<callDescriptor, callPeople, scores, sessionVars>>

\* One turn of the for loop: compareFaces returns a similarity.
MatcherScores ==
    /\ matcherPc = "scanning"
    /\ scanIndex <= Len(callPeople)
    /\ ~DimensionMismatch(callDescriptor, callPeople[scanIndex].descriptor)
    /\ scores' = Append(scores, compareFaces(callDescriptor,
                                             callPeople[scanIndex].descriptor))
    /\ bestSoFar' = ScanStep(callDescriptor, callPeople[scanIndex], bestSoFar)
    /\ scanIndex' = scanIndex + 1
    /\ UNCHANGED <<matcherPc, callDescriptor, callPeople, matchResult, sessionVars>>

\* One turn of the for loop: euclideanDistance throws in compareFaces, and
\* neither compareFaces nor findBestMatch catches.
MatcherRaises ==
    /\ matcherPc = "scanning"
    /\ scanIndex <= Len(callPeople)
    /\ DimensionMismatch(callDescriptor, callPeople[scanIndex].descriptor)
    /\ matcherPc' = "threw"
    /\ UNCHANGED <<callDescriptor, callPeople, scanIndex, bestSoFar, scores, matchResult,
                   sessionVars>>

\* After the for loop: the threshold test and the return.
MatcherReturns ==
    /\ matcherPc = "scanning"
    /\ scanIndex > Len(callPeople)
    /\ matchResult' = BestOrNull(bestSoFar)
    /\ matcherPc' = "returned"
    /\ UNCHANGED <<callDescriptor, callPeople, scanIndex, bestSoFar, scores, sessionVars>>

MatcherNext ==
    \/ MatcherEnters
    \/ MatcherScores
    \/ MatcherRaises
    \/ MatcherReturns

MatcherSpec == MatcherInit /\ [][MatcherNext]_vars

(***************************************************************************)
(* db/database.ts and pages/People.tsx: the Add Person form of the People  *)
(* page, and the store operations the People and PersonDetail pages call.  *)
(* Each await of a handler ends a step.                                     *)
(***************************************************************************)
\* faceDescriptor ?? undefined: a person stored with a made-up embedding
\* when the form holds none.
DescriptorOrZeros(descriptor) ==
    IF descriptor = <<>> THEN << <<0, 0>> >> ELSE descriptor

\* faceDescriptor ?? undefined, the last argument of addPerson.
DescriptorArgument(descriptor) == descriptor

\* The record db.people.add stores under the key id.
NewPerson(id, args) ==
    IF args.descriptor = <<>>
    THEN [id |-> id, name |-> args.name, photoBlob |-> args.photo]
    ELSE [id |-> id, name |-> args.name, photoBlob |-> args.photo,
          faceDescriptor |-> args.descriptor[1]]

HasPerson(id) == \E i \in DOMAIN dbPeople : dbPeople[i].id = id

\* onChange of the name and relation fields.
setFormData(data) ==
    /\ formData # data
    /\ formData' = data
    /\ UNCHANGED <<photoFile, faceDescriptor, faceStatus, saving, extractionPc, submitted,
                   yielded, matcherVars, storeVars, viewerVars, storeOpVars, summarizerVars>>

\* handlePhotoChange up to reader.readAsDataURL(file).
handlePhotoChange(photo) ==
    /\ extractionPc[photo] = "none"
    /\ photoFile' = photo
    /\ faceDescriptor' = <<>>
    /\ faceStatus' = "none"
    /\ extractionPc' = [extractionPc EXCEPT ![photo] = "reading"]
    /\ UNCHANGED <<formData, saving, submitted, yielded, matcherVars, storeVars, viewerVars,
                   storeOpVars, summarizerVars>>

\* reader.onloadend: the models are loaded and the image element is given
\* the data URL.
ReaderLoaded(photo) ==
    /\ extractionPc[photo] = "reading"
    /\ faceStatus' = "extracting"
    /\ extractionPc' = [extractionPc EXCEPT ![photo] = "extracting"]
    /\ UNCHANGED <<formData, photoFile, faceDescriptor, saving, submitted, yielded,
                   matcherVars, storeVars, viewerVars, storeOpVars, summarizerVars>>

\* img.onload: extractFaceDescriptor(img) resolves, with the embedding of
\* the photo or with null (no face, or the detector threw).
ExtractionDone(photo, found) ==
    /\ extractionPc[photo] = "extracting"
    /\ found => FaceIn(photo) # <<>>
    /\ IF found
       THEN /\ faceDescriptor' = FaceIn(photo)
            /\ faceStatus' = "found"
            /\ yielded' = yielded \cup {FaceIn(photo)[1]}
       ELSE /\ faceStatus' = "not_found"
            /\ UNCHANGED <<faceDescriptor, yielded>>
    /\ extractionPc' = [extractionPc EXCEPT ![photo] = "none"]
    /\ UNCHANGED <<formData, photoFile, saving, submitted, matcherVars, storeVars,
                   viewerVars, storeOpVars, summarizerVars>>

\* handleSubmit up to await addPerson(...); the submit button is disabled
\* while saving or while a field or the photo is missing.
handleSubmit ==
    /\ ~saving
    /\ formData.name # "" /\ formData.relation # "" /\ photoFile # NoPhoto
    /\ peopleAdded < MaxPeople
    /\ saving' = TRUE
    /\ submitted' = << [name |-> formData.name, relation |-> formData.relation,
                        photo |-> photoFile,
                        descriptor |-> DescriptorArgument(faceDescriptor)] >>
    /\ UNCHANGED <<formData, photoFile, faceDescriptor, faceStatus, extractionPc, yielded,
                   matcherVars, storeVars, viewerVars, storeOpVars, summarizerVars>>

\* addPerson: db.people.add resolves.
PersonStored ==
    /\ submitted # <<>>
    /\ dbPeople' = Append(dbPeople, NewPerson(nextPersonId, submitted[1]))
    /\ nextPersonId' = nextPersonId + 1
    /\ peopleAdded' = peopleAdded + 1
    /\ submitted' = <<>>
    /\ UNCHANGED <<dbConversations, deletePc, convoPc, notes, formData, photoFile,
                   faceDescriptor, faceStatus, saving, extractionPc, yielded, matcherVars,
                   viewerVars, summarizerVars>>

\* addPerson rejects: the catch and finally blocks of handleSubmit.
PersonStoreFails ==
    /\ submitted # <<>>
    /\ submitted' = <<>>
    /\ saving' = FALSE
    /\ UNCHANGED <<formData, photoFile, faceDescriptor, faceStatus, extractionPc, yielded,
                   matcherVars, storeVars, viewerVars, storeOpVars, summarizerVars>>

\* The fields resetForm clears.
FormReset ==
    /\ formData' = [name |-> "", relation |-> ""]
    /\ photoFile' = NoPhoto
    /\ faceDescriptor' = <<>>
    /\ faceStatus' = "none"

\* loadPeople() resolves: resetForm(), and the finally block of handleSubmit.
SubmitFinishes ==
    /\ saving /\ submitted = <<>>
    /\ FormReset
    /\ saving' = FALSE
    /\ UNCHANGED <<extractionPc, submitted, yielded, matcherVars, storeVars, viewerVars,
                   storeOpVars, summarizerVars>>

\* The Cancel button of the form.
resetForm ==
    /\ formData # [name |-> "", relation |-> ""] \/ photoFile # NoPhoto
    /\ FormReset
    /\ UNCHANGED <<saving, extractionPc, submitted, yielded, matcherVars, storeVars,
                   viewerVars, storeOpVars, summarizerVars>>

\* The form, about to be submitted with a name, a relation and a photo in
\* which a face was found.
FormFilledIn ==
    /\ formData = [name |-> "Eve", relation |-> "Friend"]
    /\ photoFile = 1
    /\ faceDescriptor = FaceIn(1)
    /\ faceStatus = "found"
    /\ saving = FALSE
    /\ extractionPc = [photo \in Photos |-> "none"]
    /\ submitted = <<>>
    /\ yielded = {FaceIn(1)[1]}

\* handleDelete and handleDeletePerson: deletePerson(id) is called.
deletePersonCalled(id) ==
    /\ HasPerson(id)
    /\ deletePc[id] = "idle"
    /\ deletePc' = [deletePc EXCEPT ![id] = "conversations"]
    /\ UNCHANGED <<nextPersonId, convoPc, peopleAdded, notes, matcherVars, storeVars,
                   viewerVars, formVars, summarizerVars>>

\* await db.conversations.where('personId').equals(id).delete()
ConversationsDeleted(id) ==
    /\ deletePc[id] = "conversations"
    /\ dbConversations' = SelectSeq(dbConversations, LAMBDA c : c.personId # id)
    /\ deletePc' = [deletePc EXCEPT ![id] = "person"]
    /\ UNCHANGED <<dbPeople, nextPersonId, convoPc, peopleAdded, notes, matcherVars,
                   viewerVars, formVars, summarizerVars>>

\* await db.people.delete(id): deletePerson completes.
PersonDeleted(id) ==
    /\ deletePc[id] = "person"
    /\ dbPeople' = SelectSeq(dbPeople, LAMBDA p : p.id # id)
    /\ deletePc' = [deletePc EXCEPT ![id] = "done"]
    /\ UNCHANGED <<dbConversations, nextPersonId, convoPc, peopleAdded, notes, matcherVars,
                   viewerVars, formVars, summarizerVars>>

\* handleAddConversation on the page of person id, up to its first await:
\* of summarizeConversation when useAI, else of addConversation.
handleAddConversation(id, useAI) ==
    /\ HasPerson(id)
    /\ convoPc[id] = "idle"
    /\ notes < MaxNotes
    /\ convoPc' = [convoPc EXCEPT ![id] = IF useAI THEN "summarizing" ELSE "adding"]
    /\ UNCHANGED <<nextPersonId, deletePc, peopleAdded, notes, matcherVars, storeVars,
                   viewerVars, formVars, summarizerVars>>

\* summarizeConversation(convoText) resolves.
SummaryReturned(id) ==
    /\ convoPc[id] = "summarizing"
    /\ convoPc' = [convoPc EXCEPT ![id] = "adding"]
    /\ UNCHANGED <<nextPersonId, deletePc, peopleAdded, notes, matcherVars, storeVars,
                   viewerVars, formVars, summarizerVars>>

\* addConversation(person.id, convoText, summary): db.conversations.add
\* resolves.
ConversationAdded(id) ==
    /\ convoPc[id] = "adding"
    /\ dbConversations' = Append(dbConversations, [personId |-> id, summary |-> "Met for tea"])
    /\ notes' = notes + 1
    /\ convoPc' = [convoPc EXCEPT ![id] = "idle"]
    /\ UNCHANGED <<dbPeople, nextPersonId, deletePc, peopleAdded, matcherVars, viewerVars,
                   formVars, summarizerVars>>

\* The Add Person form over a store that starts empty.
FormInit ==
    /\ dbPeople = <<>>
    /\ SessionStart
    /\ MatcherIdle
    /\ PagesIdle

FormNext ==
    \/ \E data \in FormInputs : setFormData(data)
    \/ \E photo \in Photos : handlePhotoChange(photo)
    \/ \E photo \in Photos : ReaderLoaded(photo)
    \/ \E photo \in Photos, found \in BOOLEAN : ExtractionDone(photo, found)
    \/ handleSubmit
    \/ PersonStored
    \/ PersonStoreFails
    \/ SubmitFinishes
    \/ resetForm

FormSpec == FormInit /\ [][FormNext]_vars

\* The store under deletions of people and additions of conversations.
StoreNext ==
    \/ \E id \in PersonIds : deletePersonCalled(id)
    \/ \E id \in PersonIds : ConversationsDeleted(id)
    \/ \E id \in PersonIds : PersonDeleted(id)
    \/ \E id \in PersonIds, useAI \in BOOLEAN : handleAddConversation(id, useAI)
    \/ \E id \in PersonIds : SummaryReturned(id)
    \/ \E id \in PersonIds : ConversationAdded(id)

StoreSpec == Init /\ [][StoreNext]_vars

\* A session of ARViewer, where the effect runs once, while the People and
\* PersonDetail pages of another tab work on the same store: a person is
\* added from the form, the first person is deleted, conversations are added.
SharedStoreInit ==
    /\ dbPeople \in Rosters
    /\ SessionStart
    /\ MatcherIdle
    /\ StoreOpsIdle
    /\ FormFilledIn
    /\ SummarizerIdle

SharedStoreNext ==
    \/ \E g \in Gens : PeopleLoaded(g)
    \/ \E g \in Gens : PeopleLoadFailed(g)
    \/ \E g \in Gens, loaded \in BOOLEAN : ModelsLoaded(g, loaded)
    \/ \E g \in Gens : StreamAcquired(g)
    \/ \E g \in Gens, name \in ErrorNames : StreamRefused(g, name)
    \/ \E g \in Gens : PlayResolved(g)
    \/ \E g \in Gens, name \in ErrorNames : PlayRejected(g, name)
    \/ \E g \in Gens : TimerFires(g)
    \/ \E g \in Gens, result \in DetectionResults : DetectReturns(g, result)
    \/ \E g \in Gens : LookupReturns(g)
    \/ \E g \in Gens : LookupFails(g)
    \/ stopVideo
    \/ \E ref \in {"video", "null"} : Unmount(ref)
    \/ handleSubmit
    \/ PersonStored
    \/ SubmitFinishes
    \/ deletePersonCalled(Anna.id)
    \/ ConversationsDeleted(Anna.id)
    \/ PersonDeleted(Anna.id)

SpecSharedStore == SharedStoreInit /\ [][SharedStoreNext]_vars

(***************************************************************************)
(* services/gemini.ts: summarizeConversation.  Strings are TLA+ strings,  *)
(* handled character by character; a JSON value is a record whose one     *)
(* field tells its type: chars (a string), number, items (an array),      *)
(* fields (an object), null or undefined.                                  *)
(***************************************************************************)
Char(str, i) == SubSeq(str, i, i)

\* A character the regular expression \s matches.
IsSpace(c) == c \in {" ", "\t", "\n"}

RECURSIVE TrimStart(_)
TrimStart(str) ==
    IF Len(str) > 0 /\ IsSpace(Char(str, 1))
    THEN TrimStart(SubSeq(str, 2, Len(str))) ELSE str

RECURSIVE TrimEnd(_)
TrimEnd(str) ==
    IF Len(str) > 0 /\ IsSpace(Char(str, Len(str)))
    THEN TrimEnd(SubSeq(str, 1, Len(str) - 1)) ELSE str

\* String.prototype.trim
Trim(str) == TrimEnd(TrimStart(str))

UpperCase == "ABCDEFGHIJKLMNOPQRSTUVWXYZ"

LowerCase == "abcdefghijklmnopqrstuvwxyz"

LowerChar(c) ==
    IF \E i \in 1..Len(UpperCase) : Char(UpperCase, i) = c
    THEN Char(LowerCase, CHOOSE i \in 1..Len(UpperCase) : Char(UpperCase, i) = c)
    ELSE c

\* String.prototype.toLowerCase
RECURSIVE toLowerCase(_)
toLowerCase(str) ==
    IF Len(str) = 0 THEN ""
    ELSE LowerChar(Char(str, 1)) \o toLowerCase(SubSeq(str, 2, Len(str)))

\* String.prototype.includes
includes(str, part) ==
    \E i \in 1..(Len(str) - Len(part) + 1) : SubSeq(str, i, i + Len(part) - 1) = part

\* The characters of str before its first whitespace.
RECURSIVE FirstWord(_)
FirstWord(str) ==
    IF Len(str) = 0 \/ IsSpace(Char(str, 1)) THEN ""
    ELSE Char(str, 1) \o FirstWord(SubSeq(str, 2, Len(str)))

\* str.split(/\s+/) of a string without whitespace at its ends.
RECURSIVE SplitWords(_)
SplitWords(str) ==
    LET word == FirstWord(str)
        rest == TrimStart(SubSeq(str, Len(word) + 1, Len(str)))
    IN  IF Len(rest) = 0 THEN <<word>> ELSE <<word>> \o SplitWords(rest)

\* words.join(' ')
RECURSIVE JoinWords(_)
JoinWords(words) ==
    IF Len(words) = 0 THEN ""
    ELSE IF Len(words) = 1 THEN words[1]
    ELSE words[1] \o " " \o JoinWords(Tail(words))

topicWords ==
    << "hackathon", "birthday", "wedding", "trip", "vacation", "work", "project",
       "school", "doctor", "hospital", "dinner", "lunch", "party", "game", "movie" >>

\* How many words of the text the fallback summary quotes.
SummaryWords == 8

\* createFallbackSummary(text)
createFallbackSummary(text) ==
    LET lowerText == toLowerCase(text)
        found == { i \in DOMAIN topicWords : includes(lowerText, topicWords[i]) }
        all == SplitWords(Trim(text))
        words == SubSeq(all, 1, Min(Len(all), SummaryWords))
    IN  IF found # {}
        THEN "Talked about " \o topicWords[CHOOSE i \in found : \A j \in found : i <= j]
        ELSE IF Len(words) < 3 THEN "Had a conversation recently"
        ELSE JoinWords(words) \o "..."

IsQuote(c) == c \in {"\"", "'"}

\* summary.replace(/^["']|["']$/g, '')
StripQuotes(str) ==
    LET tail == IF Len(str) > 0 /\ IsQuote(Char(str, 1))
                THEN SubSeq(str, 2, Len(str)) ELSE str
    IN  IF Len(tail) > 0 /\ IsQuote(Char(tail, Len(tail)))
        THEN SubSeq(tail, 1, Len(tail) - 1) ELSE tail

Undefined == [undefined |-> TRUE]

JsonNull == [null |-> TRUE]

Str(chars) == [chars |-> chars]

Num(n) == [number |-> n]

Arr(items) == [items |-> items]

Obj(fields) == [fields |-> fields]

IsString(value) == DOMAIN value = {"chars"}

Nullish(value) == DOMAIN value \in {{"undefined"}, {"null"}}

\* value[name] of a value that is neither null nor undefined; "0" is [0].
Member(value, name) ==
    IF DOMAIN value = {"fields"}
    THEN IF name \in DOMAIN value.fields THEN value.fields[name] ELSE Undefined
    ELSE IF name = "0" /\ DOMAIN value = {"items"} /\ Len(value.items) > 0
    THEN value.items[1]
    ELSE IF name = "0" /\ IsString(value) /\ Len(value.chars) > 0
    THEN Str(Char(value.chars, 1))
    ELSE Undefined

\* value?.a?.b ... along path: undefined as soon as a value is nullish.
RECURSIVE OptionalChain(_, _)
OptionalChain(value, path) ==
    IF path = <<>> THEN value
    ELSE IF Nullish(value) THEN Undefined
    ELSE OptionalChain(Member(value, Head(path)), Tail(path))

\* data.first?.path?.trim(): reading a property of a nullish data throws,
\* and so does calling trim on what has no such method.
TrimmedAt(data, first, path) ==
    IF Nullish(data) THEN [threw |-> TRUE, value |-> Undefined]
    ELSE LET value == OptionalChain(Member(data, first), path)
         IN  IF Nullish(value) THEN [threw |-> FALSE, value |-> Undefined]
             ELSE IF IsString(value)
             THEN [threw |-> FALSE, value |-> Str(Trim(value.chars))]
             ELSE [threw |-> TRUE, value |-> Undefined]

Truthy(value) == IsString(value) /\ value.chars # ""

\* The four places the summary is looked for, in the order of the || chain.
SummaryPaths ==
    << [first |-> "candidates", path |-> <<"0", "content", "parts", "0", "text">>],
       [first |-> "candidates", path |-> <<"0", "text">>],
       [first |-> "text", path |-> <<>>],
       [first |-> "response", path |-> <<>>] >>

\* let summary = ... || ... || ... || ...
RECURSIVE ExtractSummary(_, _)
ExtractSummary(data, i) ==
    LET at == TrimmedAt(data, SummaryPaths[i].first, SummaryPaths[i].path)
    IN  IF at.threw \/ Truthy(at.value) \/ i = Len(SummaryPaths) THEN at
        ELSE ExtractSummary(data, i + 1)

\* What a call hands to its caller.
Returns(string) == [pc |-> "returned", result |-> string]

\* An exception that reaches the caller.
Rethrown(text) == [pc |-> "threw", result |-> ""]

\* The catch block: return createFallbackSummary(text).
Caught(text) == Returns(createFallbackSummary(text))

\* The statements after await response.json().
AfterJson(data, text) ==
    LET summary == ExtractSummary(data, 1)
    IN  IF summary.threw THEN Caught(text)
        ELSE IF ~Truthy(summary.value) THEN Returns(createFallbackSummary(text))
        ELSE Returns(Trim(StripQuotes(summary.value.chars)))

\* The statements after await fetch(): status 429, then !response.ok.
AfterFetch(status, text) ==
    IF status = 429 THEN Returns(createFallbackSummary(text))
    ELSE IF status \notin 200..299 THEN Caught(text)
    ELSE [pc |-> "json", result |-> ""]

\* The conversation texts summarized.
Texts ==
    { "",
      "Hi there",
      "  see you\tsoon   friend \n",
      "Mom's roses are beautiful this year! The red ones are my favorite.",
      "We met at the WORKSHOP",
      "My birthday is before the Hackathon" }

Statuses == {200, 429, 500, 404}

\* Response bodies in which the summary is found.
TextBodies ==
    { Obj([candidates |-> Arr(<<Obj([content |->
              Obj([parts |-> Arr(<<Obj([text |-> Str(" \"Talked about roses\"\n")])>>)])])>>)]),
      Obj([candidates |-> Arr(<<Obj([text |-> Str("Talked about a trip")])>>)]),
      Obj([text |-> Str("'Planned a visit'")]),
      Obj([candidates |-> Arr(<<>>), response |-> Str("Met for tea")]) }

\* Response bodies in which no summary is found.
TextlessBodies ==
    { JsonNull,
      Obj([error |-> Obj([code |-> Num(400)])]),
      Obj([candidates |-> Arr(<<>>)]),
      Obj([candidates |-> JsonNull]),
      Obj([candidates |-> Arr(<<Obj([content |-> Obj([parts |-> Arr(<<>>)])])>>)]),
      Obj([candidates |-> Arr(<<Obj([content |->
              Obj([parts |-> Arr(<<Obj([text |-> Str("  \n")])>>)])])>>)]),
      Obj([candidates |-> Arr(<<Obj([content |->
              Obj([parts |-> Arr(<<Obj([text |-> Num(5)])>>)])])>>)]),
      Obj([text |-> Str("")]),
      Str("ok"),
      Num(0) }

Bodies == TextBodies \cup TextlessBodies

SummarizerInit ==
    /\ apiKey \in BOOLEAN
    /\ sumPc = "called"
    /\ sumText \in Texts
    /\ sumOutcome = [kind |-> "none"]
    /\ sumResult = ""
    /\ dbPeople = <<>>
    /\ SessionStart
    /\ MatcherIdle
    /\ StoreOpsIdle
    /\ FormClosed

\* summarizeConversation(text) up to its first await.
SummarizeEnters ==
    /\ sumPc = "called"
    /\ IF ~apiKey
       THEN /\ sumPc' = "returned"
            /\ sumResult' = createFallbackSummary(sumText)
            /\ sumOutcome' = [kind |-> "noKey"]
       ELSE /\ sumPc' = "fetch"
            /\ UNCHANGED <<sumResult, sumOutcome>>
    /\ UNCHANGED <<apiKey, sumText, matcherVars, storeVars, viewerVars, storeOpVars, formVars>>

\* fetch() rejects: the network failed.
FetchRejects ==
    /\ sumPc = "fetch"
    /\ sumPc' = Caught(sumText).pc
    /\ sumResult' = Caught(sumText).result
    /\ sumOutcome' = [kind |-> "network"]
    /\ UNCHANGED <<apiKey, sumText, matcherVars, storeVars, viewerVars, storeOpVars, formVars>>

\* fetch() resolves with a response of that status.
FetchResolves(status) ==
    /\ sumPc = "fetch"
    /\ sumPc' = AfterFetch(status, sumText).pc
    /\ sumResult' = AfterFetch(status, sumText).result
    /\ sumOutcome' = [kind |-> "status", status |-> status]
    /\ UNCHANGED <<apiKey, sumText, matcherVars, storeVars, viewerVars, storeOpVars, formVars>>

\* response.json() rejects: the body is not JSON.
JsonRejects ==
    /\ sumPc = "json"
    /\ sumPc' = Caught(sumText).pc
    /\ sumResult' = Caught(sumText).result
    /\ sumOutcome' = [kind |-> "malformed"]
    /\ UNCHANGED <<apiKey, sumText, matcherVars, storeVars, viewerVars, storeOpVars, formVars>>

\* response.json() resolves with data.
JsonResolves(data) ==
    /\ sumPc = "json"
    /\ sumPc' = AfterJson(data, sumText).pc
    /\ sumResult' = AfterJson(data, sumText).result
    /\ sumOutcome' = [kind |-> "body", body |-> data]
    /\ UNCHANGED <<apiKey, sumText, matcherVars, storeVars, viewerVars, storeOpVars, formVars>>

SummarizerNext ==
    \/ SummarizeEnters
    \/ FetchRejects
    \/ \E status \in Statuses : FetchResolves(status)
    \/ JsonRejects
    \/ \E data \in Bodies : JsonResolves(data)

SummarizerSpec == SummarizerInit /\ [][SummarizerNext]_vars

(***************************************************************************)
(* Properties.                                                             *)
(***************************************************************************)
\* The component is rendered: its state is what the user sees.
Rendered == videoRef = "video"

\* Run g of the effect has been cleaned up.
TornDown(g) == initPc[g] # "idle" /\ ~isMounted[g]

\* The loop of run g has a pending timer or a cycle in flight.
Live(g) == loopPc[g] \in {"timer", "detecting", "lookup"}

\* The cycle of loop g is past the detector's answer in this step.
DetectorAnswered(g) == loopPc[g] = "detecting" /\ loopPc'[g] # "detecting"

\* The cycle of loop g ends in this step.
CycleEnds(g) ==
    /\ loopPc[g] \in {"detecting", "lookup"}
    /\ loopPc'[g] \notin {"detecting", "lookup"}

Matching == {"new", "same"}

\* C1: while the component is rendered, lastMatchedId is non-null if and
\* only if a person is displayed, and the person displayed is the one with
\* that id, in every reachable state (between the steps of a cycle too).
C1_OverlayIffMatched ==
    Rendered =>
        /\ lastMatchedIdRef # Null <=> detectedPerson # <<>>
        /\ detectedPerson # <<>> => detectedPerson[1].id = lastMatchedIdRef

\* C2: a cycle that matched a person other than the last one ends with
\* lastMatchedId being that person's id, the person displayed with the
\* latest conversation summary (or the fallback text when the person has
\* no conversation), and the status "Recognized (N%)".
C2_IdentityChangeEdge ==
    [][\A g \in Gens :
         (Rendered /\ loopPc[g] = "lookup" /\ CycleEnds(g)) =>
             LET id == pending[g].personId
                 convo == getLatestConversation(id)
             IN  /\ lastMatchedIdRef' = id
                 /\ detectedPerson' =
                        <<[ id        |-> id,
                            lastConvo |-> IF convo = <<>>
                                          THEN "No recent conversations recorded."
                                          ELSE convo[1].summary ]>>
                 /\ recognitionStatus' = RecognizedStatus(pending[g].similarity)]_vars

\* C3: a lookup is issued exactly by the cycles whose match differs from
\* lastMatchedId; after a matching cycle lastMatchedId is the matched id;
\* the second of two consecutive cycles matching the same id is a debounced
\* one, and a debounced cycle issues no lookup and leaves lastMatchedId,
\* the person displayed and the status unchanged.
C3_Debounce ==
    [][\A g \in Gens :
         DetectorAnswered(g) =>
             /\ loopPc'[g] = "lookup" <=> lastCycle'.branch = "new"
             /\ lastCycle'.branch \in Matching => lastMatchedIdRef' = lastCycle'.personId
             /\ ( /\ lastCycle.branch \in Matching
                  /\ lastCycle'.branch \in Matching
                  /\ lastCycle'.personId = lastCycle.personId )
                => lastCycle'.branch = "same"
             /\ lastCycle'.branch = "same" =>
                    /\ loopPc'[g] = "timer"
                    /\ lastMatchedIdRef' = lastMatchedIdRef
                    /\ detectedPerson' = detectedPerson
                    /\ recognitionStatus' = recognitionStatus]_vars

\* A debounced cycle has run: the person matched before is matched again and
\* is displayed.
C3_Witness ==
    /\ Rendered
    /\ lastCycle.branch = "same"
    /\ detectedPerson # <<>>
    /\ detectedPerson[1].id = lastCycle.personId
    /\ lastMatchedIdRef = lastCycle.personId

\* C4: a cycle in which no face is detected sets the status to
\* "Scanning..." and the tracking flag to false (while the component is
\* rendered), and leaves lastMatchedId, the person displayed and the target
\* position unchanged.
C4_NoFaceSticky ==
    [][\A g \in Gens :
         (DetectorAnswered(g) /\ lastCycle'.branch = "noface") =>
             /\ Rendered => recognitionStatus' = "Scanning..." /\ isTracking' = FALSE
             /\ loopPc'[g] = "timer"
             /\ lastMatchedIdRef' = lastMatchedIdRef
             /\ detectedPerson' = detectedPerson
             /\ targetPosRef' = targetPosRef]_vars

\* A no-face cycle has run after a match: the matched person is still displayed.
C4_Witness ==
    /\ Rendered
    /\ lastCycle.branch = "noface"
    /\ recognitionStatus = "Scanning..."
    /\ ~isTracking
    /\ lastMatchedIdRef # Null
    /\ detectedPerson # <<>>
    /\ detectedPerson[1].id = lastMatchedIdRef

\* C5: a cycle with a face, an embedding, a non-empty EmbeddingSet and no
\* match sets the status to "Unknown face"; if lastMatchedId was non-null,
\* lastMatchedId and the person displayed are cleared; if it was null,
\* neither is changed.
C5_UnknownFaceClears ==
    [][\A g \in Gens :
         (DetectorAnswered(g) /\ lastCycle'.branch \in {"cleared", "unknown"}) =>
             /\ Rendered => recognitionStatus' = "Unknown face"
             /\ loopPc'[g] = "timer"
             /\ lastMatchedIdRef' = Null
             /\ lastCycle'.branch = "cleared" <=> lastMatchedIdRef # Null
             /\ (lastMatchedIdRef # Null /\ Rendered) => detectedPerson' = <<>>
             /\ lastMatchedIdRef = Null => detectedPerson' = detectedPerson]_vars

\* A no-match cycle has cleared the person matched before.
C5_Witness ==
    /\ Rendered
    /\ lastCycle.branch = "cleared"
    /\ recognitionStatus = "Unknown face"
    /\ lastMatchedIdRef = Null
    /\ detectedPerson = <<>>

\* C6: while the running flag is set, a cycle that ends, however it ends,
\* leaves the loop with its next timer set.
C6_AlwaysReschedules ==
    [][\A g \in Gens :
         (CycleEnds(g) /\ recognitionLoopRef') => loopPc'[g] = "timer"]_vars

\* C7: once a run of the effect is cleaned up, its loop is not started and
\* issues no detector call.
C7_NoAttemptAfterTeardown ==
    [][\A g \in Gens :
         (TornDown(g) /\ loopPc'[g] # loopPc[g]) =>
             /\ loopPc'[g] # "detecting"
             /\ loopPc[g] # "none"]_vars

\* C8: once a run of the effect is cleaned up, no stream it acquired is live.
C8_StreamsStopped ==
    \A g \in Gens : TornDown(g) => stream[g] # "live"

\* C9: at most one detection loop is live.
C9_OneLoop == Cardinality({g \in Gens : Live(g)}) <= 1

\* C10: at most one detection-and-match cycle is in flight.
C10_OneCycleInFlight ==
    Cardinality({g \in Gens : loopPc[g] \in {"detecting", "lookup"}}) <= 1

(***************************************************************************)
(* Properties of findBestMatch.                                            *)
(***************************************************************************)
\* The call has returned (it threw no exception).
Returned == matcherPc = "returned"

\* The similarity of the query to candidate i.
SimilarityOf(i) == compareFaces(callDescriptor, callPeople[i].descriptor)

\* The candidates of the highest similarity.
Best ==
    { i \in 1..Len(callPeople) : \A j \in 1..Len(callPeople) : SimilarityOf(j) <= SimilarityOf(i) }

\* The highest similarity over the candidates (for at least one candidate).
BestSimilarity == SimilarityOf(CHOOSE i \in Best : TRUE)

\* The first candidate of a sequence of indices.
First(indices) == CHOOSE i \in indices : \A j \in indices : i <= j

\* The orders the candidates of the call can be given in.
Orders ==
    { f \in [1..Len(callPeople) -> 1..Len(callPeople)] :
          \A i, j \in 1..Len(callPeople) : f[i] = f[j] => i = j }

\* C11: a call on at least one candidate returns a match if and only if the
\* highest similarity over the candidates is at least 0.4.
C11_ThresholdGate ==
    (Returned /\ Len(callPeople) > 0) =>
        (matchResult # <<>> <=> BestSimilarity >= 400)

\* A call on a single candidate scored above 0 and below 0.4 returned none.
C11_Witness ==
    /\ Returned
    /\ Len(callPeople) = 1
    /\ SimilarityOf(1) \in 1..399
    /\ matchResult = <<>>

\* C12: a match returned is one of the candidates, with its similarity, and
\* no candidate has a higher one; its id is never the placeholder -1 and
\* its similarity lies between 0.4 and 1.
C12_BestCandidate ==
    (Returned /\ matchResult # <<>>) =>
        /\ \E i \in Best :
               /\ matchResult[1].personId = callPeople[i].id
               /\ matchResult[1].similarity = SimilarityOf(i)
        /\ matchResult[1].personId # -1
        /\ matchResult[1].similarity \in 400..1000

\* Two candidates above the threshold, the second the better one: the
\* second is returned with its similarity.
C12_Witness ==
    /\ Returned
    /\ Len(callPeople) = 2
    /\ SimilarityOf(1) >= 400
    /\ SimilarityOf(1) < SimilarityOf(2)
    /\ matchResult = <<[personId |-> callPeople[2].id, similarity |-> SimilarityOf(2)]>>

\* C13: given in any other order, the candidates yield a match exactly when
\* they do in this order, with the same similarity; the id differs only
\* when several candidates have the highest similarity, and the match is
\* the first of those in the order given.
C13_OrderInvariant ==
    Returned =>
        \A f \in Orders :
            LET permuted == [i \in 1..Len(callPeople) |-> callPeople[f[i]]]
                other == findBestMatch(callDescriptor, permuted)
            IN  /\ other = <<>> <=> matchResult = <<>>
                /\ matchResult # <<>> =>
                       /\ other[1].similarity = matchResult[1].similarity
                       /\ other[1].personId # matchResult[1].personId =>
                              Cardinality(Best) > 1
                       /\ matchResult[1].personId = callPeople[First(Best)].id
                       /\ other[1].personId =
                              permuted[First({i \in 1..Len(callPeople) : f[i] \in Best})].id

\* Two candidates share the highest similarity and the first one is returned.
C13_Witness ==
    /\ Returned
    /\ matchResult # <<>>
    /\ Cardinality(Best) = 2
    /\ Len(callPeople) = 3
    /\ matchResult[1].personId = callPeople[First(Best)].id
    /\ First(Best) < 3

\* The similarity of an embedding pair at squared distance sq (in 1/64): 1
\* minus the distance, in thousandths rounded down, and 0 from distance 1 on.
IsSimilarity(s, sq) ==
    /\ s \in 0..1000
    /\ sq >= 64 => s = 0
    /\ sq < 64 =>
           /\ (1000 - s) * (1000 - s) >= 15625 * sq
           /\ s < 1000 => (999 - s) * (999 - s) < 15625 * sq

\* C14: a call on the single candidate that has the query's own embedding
\* returns that candidate's id with similarity 1; every similarity
\* computed is max(0, 1 - distance), so it is 0 from distance 1 on.
C14_SelfMatch ==
    /\ ( /\ Returned
         /\ Len(callPeople) = 1
         /\ callPeople[1].descriptor = callDescriptor )
       => matchResult = <<[personId |-> callPeople[1].id, similarity |-> 1000]>>
    /\ \A i \in 1..Len(scores) :
           IsSimilarity(scores[i], SqDistance(callDescriptor, callPeople[i].descriptor))

\* A call on the query's own embedding alone returned a match.
C14_Witness ==
    /\ Returned
    /\ Len(callPeople) = 1
    /\ callPeople[1].descriptor = callDescriptor
    /\ scores = <<1000>>
    /\ matchResult # <<>>

\* C15: a call on no candidate returns none, computes no similarity and
\* throws no exception.
C15_EmptyCandidates ==
    (callPeople = <<>> /\ matcherPc \notin {"idle", "called"}) =>
        /\ Returned
        /\ matchResult = <<>>
        /\ scores = <<>>

\* A call on no candidate has returned.
C15_Witness ==
    /\ Returned
    /\ callPeople = <<>>
    /\ callDescriptor # <<>>

(***************************************************************************)
(* Properties of the session: failures and the cycles without a match     *)
(* attempt.                                                                 *)
(***************************************************************************)
\* The branches of a cycle in which findBestMatch was called.
MatcherBranches == {"new", "same", "cleared", "unknown", "threw"}

\* getUserMedia of run g is refused in this step.
CameraRefused(g) ==
    /\ initPc[g] = "getUserMedia"
    /\ initPc'[g] = "done"
    /\ stream'[g] = "none"

\* loadFaceDetectionModels of run g resolves with false in this step.
ModelLoadFailed(g) ==
    /\ initPc[g] = "loadModels"
    /\ initPc'[g] = "getUserMedia"
    /\ ~modelsReadyRef'

\* What a refused camera, a model-load failure and a failed detection leave
\* on the screen, and the loop while the models are not ready.
FailureLabels(g) ==
    /\ (CameraRefused(g) /\ isMounted[g] /\ Rendered) =>
           recognitionStatus' \in {"Camera access denied", "Camera error"}
    /\ (ModelLoadFailed(g) /\ Rendered) => recognitionStatus' = "AI failed to load"
    /\ (DetectorAnswered(g) /\ lastCycle'.face = "none") =>
           /\ Rendered => recognitionStatus' = "Scanning..."
           /\ loopPc'[g] = "timer"
    /\ (~modelsReadyRef /\ loopPc'[g] # loopPc[g]) =>
           /\ loopPc'[g] # "detecting"
           /\ loopPc[g] = "timer" => ~recognitionLoopRef

\* C16: a cycle in which findBestMatch meets a stored embedding of another
\* length than the detected one ends like any other cycle: with the next
\* timer of the loop set, and lastMatchedId and the person displayed as
\* they were.
C16_MismatchStopsOneCycle ==
    [][\A g \in Gens :
         (DetectorAnswered(g) /\ lastCycle'.branch = "threw") =>
             /\ recognitionLoopRef' => loopPc'[g] = "timer"
             /\ lastMatchedIdRef' = lastMatchedIdRef
             /\ detectedPerson' = detectedPerson]_vars

\* C17 as stated: a refused camera, a model-load failure and a failed
\* detection each leave their status label, and after each of them a loop
\* of the session is polling; while the models are not ready no detector
\* call is issued and the timer is set again.
C17_FailuresKeepPolling ==
    [][\A g \in Gens :
         /\ FailureLabels(g)
         /\ CameraRefused(g) => \E h \in Gens : Live(h)']_vars

\* C17 as amended: a refused camera leaves its status label and starts no
\* loop; a model-load failure and a failed detection leave their labels,
\* and the loop sets its next timer; while the models are not ready no
\* detector call is issued and the timer is set again.
C17_FailuresGiveLabels ==
    [][\A g \in Gens :
         /\ FailureLabels(g)
         /\ CameraRefused(g) => loopPc' = loopPc]_vars

\* The models failed to load and the loop of the session is backing off.
C17_Witness ==
    /\ Rendered
    /\ ~modelsReadyRef
    /\ recognitionStatus = "AI failed to load"
    /\ recognitionLoopRef
    /\ \E g \in Gens : loopPc[g] = "timer"

\* C18: a cycle that detects a face, with or without an embedding, while
\* the descriptor lookup is empty sets the status to "No faces registered"
\* (while the component is rendered), does not call findBestMatch, and
\* leaves lastMatchedId and the person displayed unchanged.
C18_NoFacesRegistered ==
    [][\A g \in Gens :
         ( /\ DetectorAnswered(g)
           /\ storedDescriptorsRef = <<>>
           /\ lastCycle'.face \in {"box", "embedding"} ) =>
             /\ Rendered => recognitionStatus' = "No faces registered"
             /\ lastCycle'.branch \notin MatcherBranches
             /\ loopPc'[g] = "timer"
             /\ lastMatchedIdRef' = lastMatchedIdRef
             /\ detectedPerson' = detectedPerson]_vars

\* A face with an embedding was detected while no face is registered.
C18_Witness ==
    /\ Rendered
    /\ storedDescriptorsRef = <<>>
    /\ modelsReadyRef
    /\ lastCycle.face = "embedding"
    /\ lastCycle.branch = "noregistered"
    /\ recognitionStatus = "No faces registered"

\* What C19 says of a cycle that detects a face without an embedding,
\* apart from the status.
BoxOnlyCycle(g) ==
    /\ Rendered => isTracking'
    /\ targetPosRef' = TargetFor(lastCycle'.position[1])
    /\ lastCycle'.branch \notin MatcherBranches
    /\ loopPc'[g] = "timer"

\* C19 as stated: a cycle that detects a face without an embedding sets
\* the status to "Analyzing face...", sets the tracking flag, updates the
\* target position and does not call findBestMatch.
C19_AnalyzingFace ==
    [][\A g \in Gens :
         (DetectorAnswered(g) /\ lastCycle'.face = "box") =>
             /\ Rendered => recognitionStatus' = "Analyzing face..."
             /\ BoxOnlyCycle(g)]_vars

\* C19 as amended: such a cycle sets the status to "Analyzing face..."
\* when the descriptor lookup is not empty and to "No faces registered"
\* when it is; in both cases it sets the tracking flag, updates the target
\* position and does not call findBestMatch.
C19_AnalyzingFaceRegistered ==
    [][\A g \in Gens :
         (DetectorAnswered(g) /\ lastCycle'.face = "box") =>
             /\ Rendered =>
                    recognitionStatus' = IF storedDescriptorsRef = <<>>
                                         THEN "No faces registered"
                                         ELSE "Analyzing face..."
             /\ BoxOnlyCycle(g)]_vars

\* A face without an embedding was detected while faces are registered.
C19_Witness ==
    /\ Rendered
    /\ storedDescriptorsRef # <<>>
    /\ lastCycle.face = "box"
    /\ recognitionStatus = "Analyzing face..."
    /\ isTracking
    /\ targetPosRef = [x |-> 48, y |-> 45]

\* C20: the target position has x <= 85 and y >= 10 in every state, and
\* after a cycle that detected a face at (px, py) it is
\* (min(px + 8, 85), max(py - 5, 10)).
C20_TargetClamped ==
    /\ targetPosRef.x <= 85
    /\ targetPosRef.y >= 10
    /\ lastCycle.position # <<>> =>
           LET px == lastCycle.position[1].x
               py == lastCycle.position[1].y
           IN  /\ targetPosRef.x = IF px + 8 <= 85 THEN px + 8 ELSE 85
               /\ targetPosRef.y = IF py - 5 >= 10 THEN py - 5 ELSE 10

\* A face at the right edge and at the top of the frame was detected: the
\* target is at both limits.
C20_Witness ==
    /\ lastCycle.position = <<[x |-> 96, y |-> 2]>>
    /\ targetPosRef = [x |-> 85, y |-> 10]

(***************************************************************************)
(* The animation: claims C21 to C25.                                       *)
(***************************************************************************)
Abs(n) == IF n < 0 THEN -n ELSE n

\* A coordinate moved from smoothed to moved towards target by 0.12 of the
\* way (to the nearest millionth of a percent): it lies between the two
\* and is not on the target unless it was there.
SmoothedStep(smoothed, target, moved) ==
    /\ Abs(100 * (moved - smoothed) - 12 * (target - smoothed)) <= 50
    /\ Min(smoothed, target) <= moved
    /\ moved <= Max(smoothed, target)
    /\ target # smoothed => moved # target

\* C21: each step of the animator replaces each coordinate of the smoothed
\* position by smoothed + (target - smoothed) * 0.12, the x coordinate from
\* the x coordinates alone and the y coordinate from the y coordinates
\* alone; it never overshoots the target and never jumps onto it.
C21_SmoothingStep ==
    [][ /\ SmoothedStep(smoothPosRef.x, targetPosRef.x, smoothPosRef'.x)
        /\ SmoothedStep(smoothPosRef.y, targetPosRef.y, smoothPosRef'.y)
        /\ overlayPos' = smoothPosRef' ]_vars

\* C21 happens: from (75, 30) towards (80, 20) one step gives (75.6, 28.8).
C21_Witness ==
    /\ steps = 1
    /\ startPos = [x |-> 75 * Percent, y |-> 30 * Percent]
    /\ targetPosRef = [x |-> 80 * Percent, y |-> 20 * Percent]
    /\ smoothPosRef = [x |-> 75600000, y |-> 28800000]
    /\ overlayPos = smoothPosRef

\* Within a thousandth of the initial offset, axis by axis.
Settled ==
    /\ 1000 * Abs(targetPosRef.x - smoothPosRef.x) <= Abs(targetPosRef.x - startPos.x)
    /\ 1000 * Abs(targetPosRef.y - smoothPosRef.y) <= Abs(targetPosRef.y - startPos.y)

\* C22 as stated: with a fixed target the smoothed position is within 0.1%
\* of the initial offset after 50 steps.
C22_SettledIn50 == steps >= 50 => Settled

\* C22: with a fixed target the smoothed position is within 0.1% of the
\* initial offset after 55 steps, and stays there.
C22_SettledIn55 == steps >= 55 => Settled

\* C22 happens: 55 frames have run on an overlay that started off its target
\* on both axes.
C22_Witness ==
    /\ steps = 55
    /\ startPos.x # targetPosRef.x
    /\ startPos.y # targetPosRef.y
    /\ Settled

\* The step moves the overlay: a frame callback has run.
OverlayMoves == smoothPosRef' # smoothPosRef \/ overlayPos' # overlayPos

\* A poll cycle of loop g passes one of its awaits in this step.
CycleSteps(g) ==
    /\ loopPc[g] \in {"detecting", "lookup"}
    /\ loopPc'[g] # loopPc[g]

\* C23: an animator step reads only the target and writes only the smoothed
\* position and the overlay rendered from it: it leaves lastMatchedId, the
\* displayed person, the status, the tracking flag, the target, the running
\* flag and the EmbeddingSet unchanged, and a poll cycle never writes the
\* smoothed position.
C23_AnimatorFrame ==
    [][ /\ OverlayMoves =>
             /\ SmoothedStep(smoothPosRef.x, targetPosRef.x, smoothPosRef'.x)
             /\ SmoothedStep(smoothPosRef.y, targetPosRef.y, smoothPosRef'.y)
             /\ UNCHANGED <<lastMatchedIdRef, detectedPerson, recognitionStatus,
                            isTracking, targetPosRef, recognitionLoopRef,
                            storedDescriptorsRef, allPeopleRef, loopPc, lastCycle>>
        /\ (loopPc' # loopPc \/ lastCycle' # lastCycle) =>
             UNCHANGED <<smoothPosRef, overlayPos>> ]_vars

\* C23 happens: the overlay has moved off its first position towards the
\* target of a cycle that recognized a person, who is still displayed.
C23_Witness ==
    /\ smoothPosRef # [x |-> 75, y |-> 30]
    /\ overlayPos = smoothPosRef
    /\ smoothPosRef # targetPosRef
    /\ lastMatchedIdRef # Null
    /\ detectedPerson # <<>>
    /\ lastCycle.branch \in Matching
    /\ recognitionLoopRef

\* C24: once started, the animator has a frame pending, so that a step of
\* it is enabled, whatever the poller does (a detector call in flight, no
\* face tracked, Stop Video pressed), until the teardown.
C24_AnimatorKeepsStepping ==
    (animationRef # NoHandle /\ isMounted[animationRef]) =>
        /\ animationRef \in frames
        /\ ENABLED animate(animationRef)

\* C24 happens: Stop Video was pressed while a detector call is in flight,
\* no face is tracked, and the overlay still moves.
C24_Witness ==
    /\ \E g \in Gens : g \in frames /\ isMounted[g] /\ loopPc[g] = "detecting"
    /\ ~recognitionLoopRef
    /\ ~isTracking
    /\ \E g \in Gens : stream[g] = "stopped"
    /\ smoothPosRef # targetPosRef
    /\ smoothPosRef # [x |-> 75, y |-> 30]

\* C25: after the teardown of a run of the effect no frame of its animation
\* is pending, so that no animator step runs again: the teardown cancels
\* the loop, and an initialization that was in progress at the teardown
\* does not start it.
C25_NoStepAfterTeardown ==
    \A g \in Gens : TornDown(g) => (g \notin frames /\ ~ENABLED animate(g))

\* C25 happens: the session was torn down while its initialization was in
\* progress, the initialization has run to its end since, and no frame is
\* pending.
C25_Witness ==
    \E g \in Gens :
        /\ TornDown(g)
        /\ initPc[g] = "done"
        /\ animationRef = NoHandle
        /\ frames = {}

\* The same after a teardown that cancelled a running animation.
C25_WitnessCancelled ==
    \E g \in Gens :
        /\ TornDown(g)
        /\ animationRef = g
        /\ smoothPosRef # [x |-> 75, y |-> 30]
        /\ frames = {}

\* The step is one of the detection poller or of the overlay animator.
LoopStep == (\E g \in Gens : CycleSteps(g)) \/ (\E g \in Gens : g \in frames /\ OverlayMoves)

\* C27 as stated: lastMatchedId, the status label, the target and the
\* smoothed position are changed only by a poll cycle or an animator step.
C27_OnlyLoopsWrite ==
    [][ <<lastMatchedIdRef, recognitionStatus, targetPosRef, smoothPosRef>>' #
            <<lastMatchedIdRef, recognitionStatus, targetPosRef, smoothPosRef>>
        => LoopStep ]_vars

\* C27: lastMatchedId, the target and the smoothed position are changed
\* only by a poll cycle or an animator step, and the status label only by a
\* poll cycle or a step of the initialization (camera start included):
\* Stop Video and the Ray-Ban mode toggle leave all four unchanged.
C27_LoopsAndInitWrite ==
    [][ /\ <<lastMatchedIdRef, targetPosRef, smoothPosRef>>' #
                <<lastMatchedIdRef, targetPosRef, smoothPosRef>>
            => LoopStep
        /\ recognitionStatus' # recognitionStatus
            => (LoopStep \/ initPc' # initPc) ]_vars

\* C27 happens: Stop Video and the Ray-Ban mode button were pressed in a
\* session that had recognized a person, and its label, its last match, its
\* target and its overlay are still those of the loops.
C27_Witness ==
    /\ isRayBanMode
    /\ ~cameraActive
    /\ \E g \in Gens : stream[g] = "stopped"
    /\ lastMatchedIdRef # Null
    /\ recognitionStatus \in {RecognizedStatus(1000), RecognizedStatus(875)}
    /\ targetPosRef # [x |-> 75, y |-> 30]
    /\ smoothPosRef # [x |-> 75, y |-> 30]

(***************************************************************************)
(* The summarizer: claim C28.                                              *)
(***************************************************************************)
\* The fallback summary of each text of Texts, worked out by hand.
FallbackOf(text) ==
    CASE text = "" -> "Had a conversation recently"
      [] text = "Hi there" -> "Had a conversation recently"
      [] text = "  see you\tsoon   friend \n" -> "see you soon friend..."
      [] text = "Mom's roses are beautiful this year! The red ones are my favorite."
             -> "Mom's roses are beautiful this year! The red..."
      [] text = "We met at the WORKSHOP" -> "Talked about work"
      [] text = "My birthday is before the Hackathon" -> "Talked about hackathon"

\* The remote call failed: no key, no network, a status that is not OK, a
\* body that is not JSON, or one that holds no summary.
RemoteFailed ==
    \/ sumOutcome.kind \in {"noKey", "network", "malformed"}
    \/ sumOutcome.kind = "status" /\ sumOutcome.status \notin 200..299
    \/ sumOutcome.kind = "body" /\ sumOutcome.body \in TextlessBodies

\* C28: summarizeConversation never raises to its caller; whatever the
\* remote call does it returns a string, and when the remote call failed
\* that string is the fallback summary of the text.
C28_SummarizerNeverRaises ==
    /\ sumPc \in {"called", "fetch", "json", "returned"}
    /\ (sumPc # "returned") = (sumOutcome.kind = "none" \/
                               (sumOutcome.kind = "status" /\ sumOutcome.status \in 200..299))
    /\ (sumPc = "returned" /\ RemoteFailed) => sumResult = FallbackOf(sumText)

\* C28 happens: the body held a number where the summary is expected, and
\* the call returned the fallback summary of its text.
C28_Witness ==
    /\ sumPc = "returned"
    /\ sumOutcome.kind = "body"
    /\ sumOutcome.body =
           Obj([candidates |-> Arr(<<Obj([content |->
               Obj([parts |-> Arr(<<Obj([text |-> Num(5)])>>)])])>>)])
    /\ sumText = "We met at the WORKSHOP"
    /\ sumResult = "Talked about work"

\* A summary found in the body is returned without its quotes.
FoundSummaryReturned ==
    (sumPc = "returned" /\ sumOutcome.kind = "body" /\ sumOutcome.body \in TextBodies) =>
        sumResult \in {"Talked about roses", "Talked about a trip", "Planned a visit",
                       "Met for tea"}

StaleDescriptorStored ==
    \E i \in DOMAIN dbPeople :
        /\ dbPeople[i].photoBlob = 2
        /\ "faceDescriptor" \in DOMAIN dbPeople[i]

\* C30: when deletePerson(id) completes, the store holds neither the person
\* nor a conversation of that person.
C30_DeleteLeavesNothing ==
    [][ \A id \in PersonIds :
          (deletePc[id] = "person" /\ deletePc'[id] = "done") =>
              /\ \A i \in DOMAIN dbPeople' : dbPeople'[i].id # id
              /\ \A i \in DOMAIN dbConversations' : dbConversations'[i].personId # id ]_vars

\* The people of a roster that have an embedding, as pairs of id and
\* embedding.
Embeddings(people) ==
    { <<people[i].id, people[i].faceDescriptor>> :
          i \in { j \in DOMAIN people : "faceDescriptor" \in DOMAIN people[j] } }

RecognizedLabels == {RecognizedStatus(similarity) : similarity \in 0..1000}

\* The cycle of loop g runs to its setTimeout in this step.
CycleCompletes(g) ==
    /\ loopPc[g] \in {"detecting", "lookup"}
    /\ loopPc'[g] = "timer"

\* C31: while the component is rendered, when a cycle completes in which the
\* matcher returned a match the status is a 'Recognized (N%)' label, and
\* when a cycle completes with the status 'Scanning...' that cycle detected
\* no face.
C31_StatusOfLastCycle ==
    [][\A g \in Gens :
         (CycleCompletes(g) /\ Rendered /\ Rendered') =>
             /\ lastCycle'.branch \in Matching =>
                    recognitionStatus' \in RecognizedLabels
             /\ recognitionStatus' = "Scanning..." =>
                    lastCycle'.face = "none"]_vars

\* Stop Video has run on the stream of a run whose initializeAR is over.
StoppedByButton ==
    /\ Rendered
    /\ \E g \in Gens : stream[g] = "stopped"
    /\ \A g \in Gens : initPc[g] \in {"idle", "done"}

\* C32: once Stop Video has run on an active stream, no step sets the
\* tracking flag or changes the displayed person or the status.
C32_NothingWrittenAfterStop ==
    [][StoppedByButton =>
           /\ ~isTracking'
           /\ UNCHANGED <<detectedPerson, recognitionStatus>>]_vars

\* C33: whenever the running flag is set, a loop has a cycle in flight or a
\* timer pending.
C33_FlagMeansLiveLoop ==
    recognitionLoopRef => \E g \in Gens : Live(g)

\* C34: once every run of the effect is cleaned up, a cycle that completes
\* issues no lookup and changes none of lastMatchedId, the displayed
\* person, the status and the target position.
C34_NoWriteAfterTeardown ==
    [][\A g \in Gens :
         (DetectorAnswered(g) /\ \A h \in Gens : initPc[h] # "idle" => ~isMounted[h]) =>
             /\ loopPc'[g] # "lookup"
             /\ UNCHANGED <<lastMatchedIdRef, detectedPerson,
                            recognitionStatus, targetPosRef>>]_vars

\* C35: a face descriptor stored with a person is the embedding of the face
\* in the photo stored with that person.
C35_DescriptorOfStoredPhoto ==
    \A i \in DOMAIN dbPeople :
        "faceDescriptor" \in DOMAIN dbPeople[i] =>
            FaceIn(dbPeople[i].photoBlob) = <<dbPeople[i].faceDescriptor>>

\* C36: a loop is started only by a run of the effect whose initialization
\* is over, with the roster and the descriptor lookup holding the people of
\* the store and their embeddings; a detector call is in flight only with
\* the models loaded; and a cycle reports 'No faces registered' only when no
\* person of the store has an embedding.
C36_LoopAfterLoads ==
    /\ \A g \in Gens :
           loopPc[g] # "none" =>
               /\ initPc[g] = "done"
               /\ allPeopleRef = dbPeople
               /\ { <<storedDescriptorsRef[i].id, storedDescriptorsRef[i].descriptor>> :
                        i \in DOMAIN storedDescriptorsRef } = Embeddings(dbPeople)
    /\ \A g \in Gens : loopPc[g] = "detecting" => modelsLoaded /\ modelsReadyRef
    /\ lastCycle.branch = "noregistered" => Embeddings(dbPeople) = {}

\* C36 happens: the first detector call of a session is in flight, with the
\* two embeddings of the store's three people in the descriptor lookup.
C36_Witness ==
    /\ \E g \in Gens : loopPc[g] = "detecting"
    /\ lastCycle = NoCycle
    /\ Len(dbPeople) = 3
    /\ Len(storedDescriptorsRef) = 2

====
